---- MODULE Spec2Model ----
(***************************************************************************)
(* A model of the SQLite backend of the Kernel CI report database:         *)
(* kcidb/db/sqlite/v04_00.py (Connection, Schema v4.0) and                 *)
(* kcidb/db/sqlite/v04_01.py (Schema v4.1).                                *)
(*                                                                         *)
(* A database is a map from the names of the created tables to the rows of *)
(* each table, in storage (rowid) order.  Every table keeps its key        *)
(* columns, its reference columns, one optional text column ("comment")    *)
(* and, for checkouts, one timestamp column ("start_time").  Column values *)
(* are natural numbers; NULL is the number no value uses.                  *)
(***************************************************************************)
EXTENDS Integers, Sequences, FiniteSets, TLC

VARIABLES
    params,        \* the parameter string handed to Connection(params)
    rnd,           \* the outcome of random.randint(0, 1) in Connection.__init__
    conn,          \* the Connection object: opened, database, load_prio_db
    version,       \* the Schema class in use: "v4.0" or "v4.1"
    db,            \* created tables -> sequence of rows
    lastLoad,      \* the last load call: its arguments, the database before it
    wins,          \* who won the key conflicts of the last three load calls
    gen,           \* the dump_iter / query_iter generator in progress
    emitted,       \* the documents the generator has yielded so far
    uv,            \* the user_version of the database file, and the last
                   \* set_schema_version / get_schema_version calls
    inherited,     \* whether _inherit upgraded the database, and the
                   \* tables before it did
    oo,            \* the last oo_query call: its patterns, the database it
                   \* ran on and its outcome
    err,           \* the last failure of a statement of the backend, and
                   \* the error its operation raised to the caller
    txn,           \* the with-blocks entered on the connection, and what
                   \* happened on it while the one of a generator was
    note,          \* the last notification message rendered
    vm             \* the last run of validate_main

vars == <<params, rnd, conn, version, db, lastLoad, wins, gen, emitted, uv,
          inherited, oo, err, txn, note, vm>>

----------------------------------------------------------------------------
(* Bounds of the model *)

\* Identifiers of objects are 1..MaxId
MaxId == 2
\* Largest objects_per_report tried
MaxN == 3
\* Largest number of load calls on one connection
MaxLoads == 4
\* Largest number of objects of a document loaded to be dumped
MaxDocObjs == 3
\* Longest connection parameter string
MaxParamLen == 3
\* Largest number of objects of a document of colliding objects
MaxConflictObjs == 2
\* Largest number of objects of the graph left out of the queried database
MaxMissing == 2
\* Largest of the small major and minor version numbers set
MaxMajor == 2
MaxMinor == 1
MaxPatterns == 2
MaxErrObjs == 2
MaxCatalog == 3
MaxTxnLoads == 2
MaxDepth == 2
MaxTxnObjs == 2
MaxText == 5
\* The limits of the subject and of the body of a message, in characters,
\* scaled down
NOTIFICATION_MESSAGE_SUBJECT_MAX_LEN == 3
NOTIFICATION_MESSAGE_BODY_MAX_LEN == 4

----------------------------------------------------------------------------
(* Values *)

\* The SQL NULL / Python None of a column value
NULL == 0

Ids == 1..MaxId

\* A timestamp text: an instant and the way it is spelled.  Spelling 0 is
\* the fixed ISO-8601 UTC form with microseconds, any other spelling is
\* another valid RFC3339 text of the same instant.
TsText(instant, spelling) == 10 * instant + spelling
TsInstant(text) == text \div 10
TsSpelling(text) == text % 10

Max(a, b) == IF a >= b THEN a ELSE b

\* s starts with the prefix p (str.startswith)
StartsWith(s, p) ==
    /\ Len(s) >= Len(p)
    /\ SubSeq(s, 1, Len(p)) = p

\* The set of the sequences over S of length at most n
SeqsUpTo(S, n) == UNION {[1..k -> S] : k \in 0..n}

\* The elements of a sequence
Range(s) == {s[i] : i \in DOMAIN s}

RECURSIVE SumLens(_, _)
\* The total length of the sequences f[t], t in S
SumLens(f, S) ==
    IF S = {} THEN 0
    ELSE LET t == CHOOSE x \in S : TRUE
         IN Len(f[t]) + SumLens(f, S \ {t})

----------------------------------------------------------------------------
(* Schema: tables, columns, keys *)

V40_TABLES == <<"checkouts", "builds", "tests">>
V41_TABLES == V40_TABLES \o <<"issues", "incidents">>

\* Schema.TABLES of the schema version v, in declaration order
TABLES(v) == IF v = "v4.0" THEN V40_TABLES ELSE V41_TABLES

TableNames(v) == Range(TABLES(v))

\* The columns of a table, in declaration order
TableColumns(t) ==
    CASE t = "checkouts" -> <<"id", "git_commit_hash", "patchset_hash",
                              "comment", "start_time">>
      [] t = "builds"    -> <<"checkout_id", "id", "comment">>
      [] t = "tests"     -> <<"build_id", "id", "comment">>
      [] t = "issues"    -> <<"id", "version", "comment">>
      [] t = "incidents" -> <<"id", "issue_id", "issue_version",
                              "build_id", "test_id", "comment">>

ColumnSet(t) == Range(TableColumns(t))

\* The primary key columns of a table
PrimaryKey(t) == IF t = "issues" THEN <<"id", "version">> ELSE <<"id">>

\* The columns declared as TimestampColumn
IsTimestamp(t, c) == t = "checkouts" /\ c = "start_time"

\* The key of a row or of an object of table t
KeyOf(t, r) == [i \in DOMAIN PrimaryKey(t) |-> r[PrimaryKey(t)[i]]]

----------------------------------------------------------------------------
(* Report documents *)

\* io.new(): a document with no object list
EmptyDoc == <<>>

RECURSIVE ObjsOf(_, _)
\* The objects of table t in a sequence of <<table, object>> pairs, in order
ObjsOf(s, t) ==
    IF s = <<>> THEN <<>>
    ELSE IF Head(s)[1] = t THEN <<Head(s)[2]>> \o ObjsOf(Tail(s), t)
         ELSE ObjsOf(Tail(s), t)

\* The document holding the objects of s, one list per table that has any
MkDoc(s) == [t \in {s[i][1] : i \in DOMAIN s} |-> ObjsOf(s, t)]

\* The number of objects of a document
DocSize(doc) == SumLens(doc, DOMAIN doc)

\* The list of table t in a document, empty when the document has none
DocList(doc, t) == IF t \in DOMAIN doc THEN doc[t] ELSE <<>>

----------------------------------------------------------------------------
(* Table: packing and unpacking of rows, insertion *)

\* TimestampColumn.pack: the text is stored in the fixed spelling
TimestampPack(text) == TsText(TsInstant(text), 0)

\* TimestampColumn.unpack: the stored text is parsed and written out again
\* in the fixed spelling
TimestampUnpack(text) == TsText(TsInstant(text), 0)

\* Table.pack: an object becomes a row; a missing field becomes NULL
Pack(t, obj, with_metadata) ==
    [c \in ColumnSet(t) |->
        IF c \in DOMAIN obj
        THEN IF IsTimestamp(t, c) THEN TimestampPack(obj[c]) ELSE obj[c]
        ELSE NULL]

\* Table.pack_iter
PackIter(t, objs, with_metadata) ==
    [i \in DOMAIN objs |-> Pack(t, objs[i], with_metadata)]

\* Table.unpack: a row becomes an object; NULL fields are dropped
Unpack(t, row, with_metadata) ==
    [c \in {x \in ColumnSet(t) : row[x] # NULL} |->
        IF IsTimestamp(t, c) THEN TimestampUnpack(row[c]) ELSE row[c]]

\* Table.unpack_iter
UnpackIter(t, rows, with_metadata) ==
    [i \in DOMAIN rows |-> Unpack(t, rows[i], with_metadata)]

\* The rows of a table without the row of key k
WithoutKey(t, rows, k) == SelectSeq(rows, LAMBDA r : KeyOf(t, r) # k)

\* One execution of the statement of Table.format_insert(name, prio_db,
\* with_metadata): the row is inserted; on a primary key collision the row
\* in the database survives when prio_db, the new row otherwise
InsertRow(t, rows, row, prio_db) ==
    IF \E i \in DOMAIN rows : KeyOf(t, rows[i]) = KeyOf(t, row)
    THEN IF prio_db THEN rows
         ELSE Append(WithoutKey(t, rows, KeyOf(t, row)), row)
    ELSE Append(rows, row)

RECURSIVE ExecuteMany(_, _, _, _)
\* cursor.executemany(insert statement, packed rows)
ExecuteMany(t, rows, packed, prio_db) ==
    IF packed = <<>> THEN rows
    ELSE ExecuteMany(t, InsertRow(t, rows, Head(packed), prio_db),
                     Tail(packed), prio_db)

----------------------------------------------------------------------------
(* Connection *)

\* Connection.__init__ taking a doubled '!' for an explicit priority too
ConnectionInit_Forced(p, r) ==
    IF StartsWith(p, <<"!">>)
    THEN [opened |-> TRUE, load_prio_db |-> TRUE, database |-> Tail(p)]
    ELSE [opened |-> TRUE, load_prio_db |-> r, database |-> p]

\* Connection.__init__: the initial load priority and the database opened
ConnectionInit(p, r) ==
    IF StartsWith(p, <<"!">>)
    THEN [opened |-> TRUE,
          load_prio_db |-> IF ~StartsWith(p, <<"!", "!">>) THEN TRUE ELSE r,
          database |-> Tail(p)]
    ELSE [opened |-> TRUE, load_prio_db |-> r, database |-> p]

\* The transaction committed also when the block raised
ConnExit_Commit(before, after, raised) == after

\* Connection.__exit__ (sqlite3 connection context): commit, or roll back
\* when the block raised
ConnExit(before, after, raised) == IF raised THEN before ELSE after

\* No connection yet
Closed == [opened |-> FALSE, load_prio_db |-> FALSE, database |-> <<>>]

\* The characters of parameter strings
Chars == {"!", "a", ":"}

\* Every parameter string of the bounded length
ParamStrings == SeqsUpTo(Chars, MaxParamLen)

----------------------------------------------------------------------------
(* Connection.set_schema_version and get_schema_version *)

\* None as a version argument or result; a version is <<major, minor>>
None == <<>>

\* The largest user_version an SQLite database file holds: 2^31 - 1
UserVersionMax == 2147483647

\* A number above UserVersionMax, whatever it is
TooBig == -1

\* major * 1000 + minor is at most UserVersionMax
Fits(major, minor) == major <= (UserVersionMax - minor) \div 1000

\* The number with the major version in the hundreds
VersionNumber_Hundred(v) ==
    IF v = None THEN 0 ELSE (v[1] * 100) + (v[2] % 100)

\* "0 if version is None else int(version[0] * 1000 + version[1] % 1000)"
VersionNumber(v) ==
    IF v = None THEN 0
    ELSE IF Fits(v[1], v[2] % 1000) THEN (v[1] * 1000) + (v[2] % 1000)
    ELSE TooBig

\* "PRAGMA user_version = number": SQLite stores 0 for a number that is
\* not a 32-bit signed integer
PragmaSet(number) == IF number = TooBig THEN 0 ELSE number

\* get_schema_version on the stored number: "if number: return
\* int(number / 1000), int(number % 1000)", None otherwise
NumberVersion(number) ==
    IF number # 0 THEN <<number \div 1000, number % 1000>> ELSE None

\* No call yet on a new database file
NoVersion == [user_version |-> 0, op |-> "none", was_set |-> FALSE,
              set |-> None, got |-> None]

----------------------------------------------------------------------------
(* Schema._inherit of v4.1 *)

\* PreviousSchema of a schema version
\* TABLES_ARGS: the columns a schema declares for each of its tables;
\* v4.1 declares "dict(**PreviousSchema.TABLES_ARGS, issues=...,
\* incidents=...)"
TABLES_ARGS(v) ==
    IF v = "v4.0" THEN [t \in Range(V40_TABLES) |-> TableColumns(t)]
    ELSE [t \in Range(V40_TABLES) |-> TableColumns(t)]
         @@ [t \in {"issues", "incidents"} |-> TableColumns(t)]

PreviousSchema(v) == IF v = "v4.1" THEN "v4.0" ELSE ""

RECURSIVE InheritTables_Recreate(_, _, _)
\* Every table of the schema created anew
InheritTables_Recreate(v, d, i) ==
    IF i > Len(TABLES(v)) THEN d
    ELSE LET t == TABLES(v)[i]
         IN InheritTables_Recreate(
                v, [x \in DOMAIN d \cup {t} |-> IF x = t THEN <<>> ELSE d[x]],
                i + 1)

RECURSIVE InheritTables(_, _, _)
\* The loop of _inherit over TABLES, from the i-th table on: a table that
\* PreviousSchema.TABLES does not have is created
\* No table created
InheritTables_None(v, d, i) == d

InheritTables(v, d, i) ==
    IF i > Len(TABLES(v)) THEN d
    ELSE LET t == TABLES(v)[i]
             d1 == IF t \notin TableNames(PreviousSchema(v))
                   THEN d @@ (t :> <<>>)
                   ELSE d
         IN InheritTables(v, d1, i + 1)

\* No upgrade yet
NotInherited == [done |-> FALSE, pre |-> <<>>, again |-> FALSE]

----------------------------------------------------------------------------
(* Schema.load *)

\* The opposite priority handed to format_insert
LoadPrio_Not(c) == ~c.load_prio_db

\* The priority handed to format_insert for every table of a load
LoadPrio(c) == c.load_prio_db

\* load stopping after the first table
LoadHasTable_First(t, doc) == t \in DOMAIN doc /\ t = "checkouts"

\* Whether load inserts into table t
LoadHasTable(t, doc) == t \in DOMAIN doc

RECURSIVE LoadTables(_, _, _, _, _, _)
\* The loop of load over TABLES, from the i-th table on
LoadTables(v, d, doc, prio_db, with_metadata, i) ==
    IF i > Len(TABLES(v)) THEN d
    ELSE LET t == TABLES(v)[i]
             d1 == IF LoadHasTable(t, doc)
                   THEN [d EXCEPT ![t] = ExecuteMany(
                            t, d[t], PackIter(t, doc[t], with_metadata),
                            prio_db)]
                   ELSE d
         IN LoadTables(v, d1, doc, prio_db, with_metadata, i + 1)

\* The value of failAt for a document failing "assert
\* self.io.is_compatible_directly(data)" or the validity assertion
AssertFails == -1

\* The object lists of the document whose executemany completes before
\* the one of the failAt-th table raises: all of them when none raises
Executed(v, doc, failAt) ==
    IF failAt = 0 THEN doc
    ELSE LET ts == {TABLES(v)[i] : i \in 1..(Max(failAt, 1) - 1)}
         IN [t \in DOMAIN doc \cap ts |-> doc[t]]

\* The flag never flipped
LoadPrioAfter_Keep(prio_db, raised) == prio_db

\* The flag flipped in a "finally", also when load raised
LoadPrioAfter_Always(prio_db, raised) == ~prio_db

\* The load-priority flag after a load call
LoadPrioAfter(prio_db, raised) == IF raised THEN prio_db ELSE ~prio_db

\* Who won the key conflicts of a load, seen from the tables before and
\* after it: "db" when a stored row survived a colliding new row, "new"
\* when a new row took its place
Sides(v, pre, post, doc, with_metadata) ==
    {side \in {"db", "new"} :
        \E t \in DOMAIN doc : \E i \in DOMAIN pre[t] :
            LET old == pre[t][i]
                news == {Pack(t, doc[t][j], with_metadata) : j \in DOMAIN doc[t]}
                hit == {n \in news : KeyOf(t, n) = KeyOf(t, old)}
            IN /\ hit # {}
               /\ old \notin hit
               /\ \/ side = "db" /\ old \in Range(post[t])
                  \/ side = "new" /\ \E n \in hit : n \in Range(post[t])}

NoLoad == [called |-> FALSE, doc |-> EmptyDoc, with_metadata |-> FALSE,
           prio |-> FALSE, raised |-> FALSE, pre |-> <<>>, count |-> 0,
           failAt |-> 0]

\* The last three entries of a sequence
Last3(s) == IF Len(s) <= 3 THEN s ELSE SubSeq(s, Len(s) - 2, Len(s))

----------------------------------------------------------------------------
(* The I/O schema: identity fields and the type graph *)

\* io.id_fields: the object list names in order, and each one's ID fields
ListNames(v) == TABLES(v)
IdFields(t) == PrimaryKey(t)

\* io.graph: the children of each object list ("" is the source)
Graph(v, t) ==
    IF v = "v4.0"
    THEN CASE t = ""          -> <<"checkouts">>
           [] t = "checkouts" -> <<"builds">>
           [] t = "builds"    -> <<"tests">>
           [] OTHER           -> <<>>
    ELSE CASE t = ""          -> <<"checkouts", "issues">>
           [] t = "checkouts" -> <<"builds">>
           [] t = "builds"    -> <<"tests", "incidents">>
           [] t = "tests"     -> <<"incidents">>
           [] t = "issues"    -> <<"incidents">>
           [] OTHER           -> <<>>

\* The column of a child table referring to field f of its parent p:
\* f"{obj_name}_{f}" with obj_name = obj_list_name[:-1]
RefColumn(p, f) ==
    CASE p = "checkouts" -> "checkout_id"
      [] p = "builds"    -> "build_id"
      [] p = "tests"     -> "test_id"
      [] p = "issues"    -> IF f = "id" THEN "issue_id" ELSE "issue_version"

\* The reference of a child row to its parent p, as an ID tuple of p
RefOf(p, r) == [i \in DOMAIN IdFields(p) |-> r[RefColumn(p, IdFields(p)[i])]]

\* A tuple with a NULL member equals nothing in a join
HasNull(tuple) == \E i \in DOMAIN tuple : tuple[i] = NULL

----------------------------------------------------------------------------
(* query_iter: the ID-selecting queries *)

\* "WITH ids(...) AS (VALUES (?, ..), ...) SELECT * FROM ids" for k IDs
ValuesSelect(t, k) ==
    [kind |-> "values", table |-> t, other |-> "", nrows |-> k, sub |-> <<>>]

\* "SELECT child.<obj>_<f> AS <f> FROM child INNER JOIN (child selects)
\* AS ids USING(child fields)": the parents of the selected children
ParentsSelect(t, child, childSelects) ==
    [kind |-> "parents", table |-> t, other |-> child, nrows |-> 0,
     sub |-> childSelects]

\* "SELECT child.<f> AS <f> FROM child INNER JOIN (parent selects) AS parent
\* ON child.<obj>_<f> = parent.<f>": the children of the selected parents
ChildrenSelect(child, t, parentSelects) ==
    [kind |-> "children", table |-> child, other |-> t, nrows |-> 0,
     sub |-> parentSelects]

RECURSIVE Flatten(_)
\* chain.from_iterable
Flatten(tuples) ==
    IF tuples = <<>> THEN <<>> ELSE Head(tuples) \o Flatten(Tail(tuples))

\* Whether the object list is named, with or without IDs
HasIds_Listed(ids, t) == t \in DOMAIN ids

\* Whether IDs are specified for an object list
HasIds(ids, t) == t \in DOMAIN ids /\ ids[t] # <<>>

\* The queries after the loop over the explicit IDs
ExplicitQueries(v, ids) ==
    [t \in Range(ListNames(v)) |->
        IF HasIds(ids, t)
        THEN [selects |-> <<ValuesSelect(t, Len(ids[t]))>>,
              params |-> Flatten(ids[t])]
        ELSE [selects |-> <<>>, params |-> <<>>]]

RECURSIVE AddParents(_, _, _)
RECURSIVE AddParentsLoop(_, _, _, _)
RECURSIVE AddParentsLoop_Early(_, _, _, _)
\* The loop of add_parents taking a child's queries before the child's own
\* parent expansion
AddParentsLoop_Early(v, Q, t, i) ==
    IF i > Len(Graph(v, t)) THEN Q
    ELSE LET child == Graph(v, t)[i]
             Q1 == IF Q[child].selects # <<>>
                   THEN [Q EXCEPT ![t] =
                           [selects |-> Append(Q[t].selects,
                                ParentsSelect(t, child, Q[child].selects)),
                            params |-> Q[t].params \o Q[child].params]]
                   ELSE Q
             Q2 == AddParents(v, Q1, child)
         IN AddParentsLoop_Early(v, Q2, t, i + 1)

\* add_parents(obj_list_name)
AddParents(v, Q, t) == AddParentsLoop(v, Q, t, 1)

\* The loop of add_parents over the children of t, from the i-th one on
AddParentsLoop(v, Q, t, i) ==
    IF i > Len(Graph(v, t)) THEN Q
    ELSE LET child == Graph(v, t)[i]
             Q1 == AddParents(v, Q, child)
             Q2 == IF Q1[child].selects # <<>>
                   THEN [Q1 EXCEPT ![t] =
                           [selects |-> Append(Q1[t].selects,
                                ParentsSelect(t, child, Q1[child].selects)),
                            params |-> Q1[t].params \o Q1[child].params]]
                   ELSE Q1
         IN AddParentsLoop(v, Q2, t, i + 1)

RECURSIVE AddChildren(_, _, _)
RECURSIVE AddChildrenLoop(_, _, _, _)
\* add_children(obj_list_name)
AddChildren(v, Q, t) == AddChildrenLoop(v, Q, t, 1)

\* The loop of add_children over the children of t, from the i-th one on
AddChildrenLoop(v, Q, t, i) ==
    IF i > Len(Graph(v, t)) THEN Q
    ELSE LET child == Graph(v, t)[i]
             Q1 == IF Q[t].selects # <<>>
                   THEN [Q EXCEPT ![child] =
                           [selects |-> Append(Q[child].selects,
                                ChildrenSelect(child, t, Q[t].selects)),
                            params |-> Q[child].params \o Q[t].params]]
                   ELSE Q
             Q2 == AddChildren(v, Q1, child)
         IN AddChildrenLoop(v, Q2, t, i + 1)

RECURSIVE FromSource(_, _, _, _)
\* "for obj_list_name in self.io.graph['']": Op is add_parents or
\* add_children (1: parents, 2: children)
FromSource(v, Q, which, i) ==
    IF i > Len(Graph(v, "")) THEN Q
    ELSE LET t == Graph(v, "")[i]
         IN FromSource(v, IF which = 1 THEN AddParents(v, Q, t)
                          ELSE AddChildren(v, Q, t),
                       which, i + 1)

\* The queries compiled with the child pass before the parent pass
CompileQueries_ChildrenFirst(v, ids, children, parents) ==
    LET Q0 == ExplicitQueries(v, ids)
        Q1 == IF children THEN FromSource(v, Q0, 2, 1) ELSE Q0
    IN IF parents THEN FromSource(v, Q1, 1, 1) ELSE Q1

\* The queries query_iter compiles from its arguments
CompileQueries(v, ids, children, parents) ==
    LET Q0 == ExplicitQueries(v, ids)
        Q1 == IF parents THEN FromSource(v, Q0, 1, 1) ELSE Q0
    IN IF children THEN FromSource(v, Q1, 2, 1) ELSE Q1

----------------------------------------------------------------------------
(* SQL: what the ID-selecting queries select *)

RECURSIVE Placeholders(_)
RECURSIVE PlaceholdersOf(_)
\* The number of "?" in a SELECT
Placeholders(sel) ==
    IF sel.kind = "values" THEN sel.nrows * Len(IdFields(sel.table))
    ELSE PlaceholdersOf(sel.sub)

\* The number of "?" in a sequence of SELECTs
PlaceholdersOf(selects) ==
    IF selects = <<>> THEN 0
    ELSE Placeholders(Head(selects)) + PlaceholdersOf(Tail(selects))

RECURSIVE SelectBlocks(_)
RECURSIVE SelectsBlocks(_)
\* The VALUES of a SELECT, in the order of its text, each with the object
\* list whose IDs it was written for
SelectBlocks(sel) ==
    IF sel.kind = "values"
    THEN <<[table |-> sel.table, nrows |-> sel.nrows]>>
    ELSE SelectsBlocks(sel.sub)

\* The VALUES of '"UNION\n".join(query.selects)', in the order of the text
SelectsBlocks(selects) ==
    IF selects = <<>> THEN <<>>
    ELSE SelectBlocks(Head(selects)) \o SelectsBlocks(Tail(selects))

RECURSIVE Dedup(_)
\* The distinct members of a sequence, in order of first occurrence
Dedup(s) ==
    IF s = <<>> THEN <<>>
    ELSE LET d == Dedup(SubSeq(s, 1, Len(s) - 1))
         IN IF s[Len(s)] \in Range(d) THEN d ELSE Append(d, s[Len(s)])

\* How many times x occurs in a sequence
Count(s, x) == Cardinality({i \in DOMAIN s : s[i] = x})

RECURSIVE Repeat(_, _)
\* k copies of x
Repeat(x, k) == IF k = 0 THEN <<>> ELSE <<x>> \o Repeat(x, k - 1)

RECURSIVE JoinRows(_, _, _, _)
\* "FROM table INNER JOIN (ids)": for each row of the table, in order, once
\* per member of ids equal to its join columns, its selected columns;
\* match[i] and out[i] are the join columns and the selected columns of
\* the i-th row
JoinRows(idseq, match, out, i) ==
    IF i > Len(match) THEN <<>>
    ELSE LET k == IF HasNull(match[i]) THEN 0 ELSE Count(idseq, match[i])
         IN Repeat(out[i], k) \o JoinRows(idseq, match, out, i + 1)

RECURSIVE EvalSelect(_, _, _)
RECURSIVE EvalUnion(_, _, _)
RECURSIVE EvalConcat(_, _, _)
\* The ID tuples a SELECT returns on database d, its "?" bound to ps in order
EvalSelect(d, sel, ps) ==
    CASE sel.kind = "values" ->
            LET nf == Len(IdFields(sel.table))
            IN [i \in 1..sel.nrows |-> [j \in 1..nf |-> ps[(i - 1) * nf + j]]]
      [] sel.kind = "parents" ->
            LET rows == d[sel.other]
            IN JoinRows(EvalUnion(d, sel.sub, ps),
                        [i \in DOMAIN rows |-> KeyOf(sel.other, rows[i])],
                        [i \in DOMAIN rows |-> RefOf(sel.table, rows[i])], 1)
      [] sel.kind = "children" ->
            LET rows == d[sel.table]
            IN JoinRows(EvalUnion(d, sel.sub, ps),
                        [i \in DOMAIN rows |-> RefOf(sel.other, rows[i])],
                        [i \in DOMAIN rows |-> KeyOf(sel.table, rows[i])], 1)

\* The SELECTs one after another, each with its own share of the parameters
EvalConcat(d, selects, ps) ==
    IF selects = <<>> THEN <<>>
    ELSE LET k == Placeholders(Head(selects))
         IN EvalSelect(d, Head(selects), SubSeq(ps, 1, k))
            \o EvalConcat(d, Tail(selects), SubSeq(ps, k + 1, Len(ps)))

\* "UNION".join(selects): one SELECT alone keeps its duplicates, several are
\* united without duplicates
EvalUnion(d, selects, ps) ==
    IF Len(selects) = 1 THEN EvalSelect(d, selects[1], ps)
    ELSE Dedup(EvalConcat(d, selects, ps))

\* Every row of the table, whatever the ID-selecting query
FetchRows_All(d, t, query) == d[t]

\* The rows the fetch statement of query_iter returns for one object list
FetchRows(d, t, query) ==
    JoinRows(EvalUnion(d, query.selects, query.params),
             [i \in DOMAIN d[t] |-> KeyOf(t, d[t][i])], d[t], 1)

----------------------------------------------------------------------------
(* oo_query: object types, statements, patterns *)

\* orm.data.SCHEMA.types, in order
OO_TYPES == <<"revision", "checkout", "build", "test",
              "issue", "issue_version", "incident">>

\* obj_type.id_field_types: the names of the ID fields of an object type
IdFieldTypes(type) ==
    CASE type = "revision"      -> <<"git_commit_hash", "patchset_hash">>
      [] type = "issue_version" -> <<"id", "version_num">>
      [] OTHER                  -> <<"id">>

\* obj_type.children: the child types of an object type
OoChildren(type) ==
    CASE type = "revision"      -> {"checkout"}
      [] type = "checkout"      -> {"build"}
      [] type = "build"         -> {"test", "incident"}
      [] type = "test"          -> {"incident"}
      [] type = "issue"         -> {"issue_version"}
      [] type = "issue_version" -> {"incident"}
      [] OTHER                  -> {}

\* obj_type.children[child].ref_fields: the fields of the child referring
\* to the ID fields of the parent, in their order
RefFields(type, child) ==
    CASE type = "revision"      -> <<"git_commit_hash", "patchset_hash">>
      [] type = "checkout"      -> <<"checkout_id">>
      [] type = "build"         -> <<"build_id">>
      [] type = "test"          -> <<"test_id">>
      [] type = "issue"         -> <<"id">>
      [] type = "issue_version" -> <<"issue_id", "issue_version_num">>

\* OO_QUERIES[type]["statement"] of schema version v: the table it selects
\* from ("" for none), its result columns each with the table column it is
\* taken from, whether it ends with "WHERE 0", and its GROUP BY columns.
\* Of the columns only the ID fields, the references and the comment are
\* kept
Statement(from, columns, where0, group_by) ==
    [from |-> from, columns |-> columns, where0 |-> where0,
     group_by |-> group_by]

OO_QUERIES_V40(type) ==
    CASE type = "revision" ->
            Statement("checkouts",
                      [git_commit_hash |-> "git_commit_hash",
                       patchset_hash |-> "patchset_hash"],
                      FALSE, <<"git_commit_hash", "patchset_hash">>)
      [] type = "checkout" ->
            Statement("checkouts",
                      [id |-> "id", git_commit_hash |-> "git_commit_hash",
                       patchset_hash |-> "patchset_hash",
                       comment |-> "comment"], FALSE, <<>>)
      [] type = "build" ->
            Statement("builds",
                      [id |-> "id", checkout_id |-> "checkout_id",
                       comment |-> "comment"], FALSE, <<>>)
      [] type = "test" ->
            Statement("tests",
                      [id |-> "id", build_id |-> "build_id",
                       comment |-> "comment"], FALSE, <<>>)
      [] type = "issue" ->
            Statement("", [id |-> ""], TRUE, <<>>)
      [] type = "issue_version" ->
            Statement("", [id |-> "", version_num |-> "", comment |-> ""],
                      TRUE, <<>>)
      [] type = "incident" ->
            Statement("", [id |-> "", issue_id |-> "",
                           issue_version_num |-> "", build_id |-> "",
                           test_id |-> "", comment |-> ""], TRUE, <<>>)

OO_QUERIES(v, type) ==
    IF v = "v4.0" THEN OO_QUERIES_V40(type)
    ELSE CASE type = "issue" ->
                Statement("issues", [id |-> "id"], FALSE, <<"id">>)
           [] type = "issue_version" ->
                Statement("issues",
                          [id |-> "id", version_num |-> "version",
                           comment |-> "comment"], FALSE, <<>>)
           [] type = "incident" ->
                Statement("incidents",
                          [id |-> "id", issue_id |-> "issue_id",
                           issue_version_num |-> "issue_version",
                           build_id |-> "build_id", test_id |-> "test_id",
                           comment |-> "comment"], FALSE, <<>>)
           [] OTHER -> OO_QUERIES_V40(type)

\* The clauses of the text of a statement, in order
Clauses(stmt) ==
    <<"SELECT">>
    \o (IF stmt.from # "" THEN <<"FROM">> ELSE <<>>)
    \o (IF stmt.where0 THEN <<"WHERE">> ELSE <<>>)
    \o (IF stmt.group_by # <<>> THEN <<"GROUP BY">> ELSE <<>>)

\* The place of a clause in a SELECT statement of SQL
ClauseRank(c) ==
    CASE c = "SELECT" -> 1 [] c = "FROM" -> 2 [] c = "WHERE" -> 3
      [] c = "GROUP BY" -> 4

\* SQLite parses the SELECT statement made of these clauses: each clause
\* comes after the ones that precede it in the grammar
WellFormed(clauses) ==
    \A i \in 1..(Len(clauses) - 1) :
        ClauseRank(clauses[i]) < ClauseRank(clauses[i + 1])

RECURSIVE GroupRows(_, _)
\* "GROUP BY columns": the first row of every group, NULLs being grouped
\* together
GroupRows(rows, cols) ==
    IF rows = <<>> THEN <<>>
    ELSE LET n == Len(rows)
             g == GroupRows(SubSeq(rows, 1, n - 1), cols)
             Key(r) == [i \in DOMAIN cols |-> r[cols[i]]]
         IN IF \E i \in DOMAIN g : Key(g[i]) = Key(rows[n]) THEN g
            ELSE Append(g, rows[n])

\* The rows of the statement with no grouping
StatementRows_Ungrouped(d, stmt) ==
    IF stmt.from = "" \/ stmt.where0 THEN <<>>
    ELSE LET rows == d[stmt.from]
         IN [i \in DOMAIN rows |->
                [f \in DOMAIN stmt.columns |-> rows[i][stmt.columns[f]]]]

\* The rows a well-formed statement returns on database d
StatementRows(d, stmt) ==
    IF stmt.from = "" \/ stmt.where0 THEN <<>>
    ELSE LET rows == d[stmt.from]
             out == [i \in DOMAIN rows |->
                        [f \in DOMAIN stmt.columns |->
                            rows[i][stmt.columns[f]]]]
         IN IF stmt.group_by = <<>> THEN out
            ELSE GroupRows(out, stmt.group_by)

\* kcidb.orm.query.Pattern(base, child, obj_type, obj_id_set): base is <<>>
\* for None or holds the base pattern; restricted is FALSE when obj_id_set
\* is None
Pattern(base, child, obj_type, restricted, obj_id_set) ==
    [base |-> base, child |-> child, obj_type |-> obj_type,
     restricted |-> restricted, obj_id_set |-> obj_id_set]

RECURSIVE SetToSeq(_)
\* The members of a set in the order an iteration meets them
SetToSeq(S) ==
    IF S = {} THEN <<>>
    ELSE LET x == CHOOSE y \in S : TRUE IN <<x>> \o SetToSeq(S \ {x})

\* The values of the fields of a row
Fields(r, fields) == [i \in DOMAIN fields |-> r[fields[i]]]

\* The rows of a sequence, each as the values of the fields
FieldsOf(rows, fields) == [i \in DOMAIN rows |-> Fields(rows[i], fields)]

\* The number of "?" of the VALUES of a pattern: one for each field of each
\* ID of its ID set ("(?, ..)" * len(pattern.obj_id_set))
OwnPlaceholders(pattern) ==
    IF pattern.restricted
    THEN Cardinality(pattern.obj_id_set) * Len(IdFieldTypes(pattern.obj_type))
    ELSE 0

\* The rows of a VALUES of rows of nf "?", the "?" bound to ps in order
ValuesRows(ps, nf) ==
    [i \in 1..(Len(ps) \div nf) |-> [j \in 1..nf |-> ps[(i - 1) * nf + j]]]

\* "[obj_id_field for obj_id in pattern.obj_id_set for obj_id_field in
\* obj_id]", and [] for a pattern with no ID or no ID set
OwnParameters(pattern) ==
    IF pattern.restricted THEN Flatten(SetToSeq(pattern.obj_id_set))
    ELSE <<>>

RECURSIVE QueryPlaceholders(_)
\* The number of "?" of the query string _oo_query_render returns: those
\* of the pattern's own query, then those of its base's
QueryPlaceholders(pattern) ==
    OwnPlaceholders(pattern)
    + (IF pattern.base = <<>> THEN 0
       ELSE QueryPlaceholders(pattern.base[1]))

RECURSIVE ValuesBlocks(_)
\* The VALUES of the query string _oo_query_render returns, in the order
\* of the text, each with the pattern it was written for
ValuesBlocks(pattern) ==
    (IF pattern.restricted /\ pattern.obj_id_set # {}
     THEN <<[ids |-> pattern.obj_id_set,
             nrows |-> Cardinality(pattern.obj_id_set),
             nf |-> Len(IdFieldTypes(pattern.obj_type))]>>
     ELSE <<>>)
    \o (IF pattern.base = <<>> THEN <<>>
        ELSE ValuesBlocks(pattern.base[1]))

RECURSIVE QueryParameters(_)
RECURSIVE QueryParameters_BaseFirst(_)
\* The parameters of the base put before the pattern's own
QueryParameters_BaseFirst(pattern) ==
    (IF pattern.base = <<>> THEN <<>>
     ELSE QueryParameters(pattern.base[1]))
    \o OwnParameters(pattern)

\* The query parameters _oo_query_render returns: the pattern's own,
\* then "query_parameters += base_query_parameters"
QueryParameters(pattern) ==
    OwnParameters(pattern)
    \o (IF pattern.base = <<>> THEN <<>>
        ELSE QueryParameters(pattern.base[1]))

\* The query of the pattern without its base: the statement of the type,
\* joined to the VALUES of a non-empty ID set, or followed by " WHERE 0"
\* for an empty one.  text is the clauses of the statement the query is
\* made of, rows is what the statement returns when SQLite accepts it
OwnQuery(v, d, pattern, ps) ==
    LET stmt == OO_QUERIES(v, pattern.obj_type)
        rows == StatementRows(d, stmt)
    IN IF pattern.restricted /\ pattern.obj_id_set # {}
       THEN [text |-> Clauses(stmt),
             rows |-> JoinRows(ValuesRows(ps,
                                          Len(IdFieldTypes(pattern.obj_type))),
                               FieldsOf(rows,
                                        IdFieldTypes(pattern.obj_type)),
                               rows, 1)]
       ELSE IF pattern.restricted
            THEN [text |-> Clauses(stmt) \o <<"WHERE">>, rows |-> <<>>]
            ELSE [text |-> Clauses(stmt), rows |-> rows]

\* The ID columns of the pattern's objects joined to the ID columns of its
\* base's objects
ColumnPairs_IdToId(pattern, base) ==
    <<IdFieldTypes(pattern.obj_type), IdFieldTypes(base.obj_type)>>

\* column_pairs: the columns of the pattern's objects (1) and of its base's
\* objects (2) the join is made on
ColumnPairs(pattern, base) ==
    IF pattern.child
    THEN <<RefFields(base.obj_type, pattern.obj_type),
           IdFieldTypes(base.obj_type)>>
    ELSE <<IdFieldTypes(pattern.obj_type),
           RefFields(pattern.obj_type, base.obj_type)>>

RECURSIVE OoQueryRender(_, _, _, _)
\* _oo_query_render(pattern) and what the query it renders returns on
\* database d: ok is whether SQLite accepts every statement it is made of
OoQueryRender(v, d, pattern, ps) ==
    LET k   == OwnPlaceholders(pattern)
        own == OwnQuery(v, d, pattern, SubSeq(ps, 1, k))
    IN IF pattern.base = <<>>
       THEN [ok |-> WellFormed(own.text), rows |-> own.rows]
       ELSE LET base  == OoQueryRender(v, d, pattern.base[1],
                                       SubSeq(ps, k + 1, Len(ps)))
                pairs == ColumnPairs(pattern, pattern.base[1])
            IN [ok   |-> WellFormed(own.text) /\ base.ok,
                rows |-> JoinRows(FieldsOf(base.rows, pairs[2]),
                                  FieldsOf(own.rows, pairs[1]),
                                  own.rows, 1)]

RECURSIVE ConcatRows(_)
\* "UNION ALL": the rows of the queries, one after the other
ConcatRows(queries) ==
    IF queries = <<>> THEN <<>>
    ELSE Head(queries).rows \o ConcatRows(Tail(queries))

\* The ID rows with every repetition kept
DistinctIds_All(rows, type) == FieldsOf(rows, IdFieldTypes(type))

\* "SELECT DISTINCT id fields FROM (...)"
DistinctIds(rows, type) == Dedup(FieldsOf(rows, IdFieldTypes(type)))

\* The query oo_query executes for an object type and the rendered
\* queries of its patterns: the statement of the type joined to the
\* distinct IDs the queries return
TypeQuery(v, d, type, queries) ==
    LET stmt == OO_QUERIES(v, type)
        rows == StatementRows(d, stmt)
    IN [ok   |-> /\ WellFormed(Clauses(stmt))
                 /\ \A i \in DOMAIN queries : queries[i].ok,
        rows |-> JoinRows(DistinctIds(ConcatRows(queries), type),
                          FieldsOf(rows, IdFieldTypes(type)), rows, 1)]

\* obj_type_queries: the object types that have a pattern in the set
QueriedTypes(pattern_set) == {pattern.obj_type : pattern \in pattern_set}

\* "for pattern in pattern_set: if pattern.obj_type == obj_type": the
\* patterns of a type, in the order their queries are rendered
PatternsOf(type, pattern_set) ==
    SetToSeq({pattern \in pattern_set : pattern.obj_type = type})

RECURSIVE TypeParameters(_)
\* "reduce(lambda x, y: x + y, (q[1] for q in queries))"
TypeParameters(patterns) ==
    IF patterns = <<>> THEN <<>>
    ELSE QueryParameters(Head(patterns)) \o TypeParameters(Tail(patterns))

RECURSIVE TypeBlocks(_)
\* The VALUES of '"\nUNION ALL\n".join(q[0] for q in queries)', in the
\* order of the text
TypeBlocks(patterns) ==
    IF patterns = <<>> THEN <<>>
    ELSE ValuesBlocks(Head(patterns)) \o TypeBlocks(Tail(patterns))

RECURSIVE PlaceholdersBefore(_, _)
\* The number of "?" of the statement of a type before the query of its
\* i-th pattern
PlaceholdersBefore(patterns, i) ==
    IF i = 1 THEN 0
    ELSE PlaceholdersBefore(patterns, i - 1)
         + QueryPlaceholders(patterns[i - 1])

\* The rendered queries of the patterns of a type, the "?" of the
\* statement bound to its parameters in order
QueriesOf(v, d, type, pattern_set) ==
    LET patterns == PatternsOf(type, pattern_set)
        ps       == TypeParameters(patterns)
    IN [i \in DOMAIN patterns |->
          LET k == PlaceholdersBefore(patterns, i)
          IN OoQueryRender(v, d, patterns[i],
                           SubSeq(ps, k + 1,
                                  k + QueryPlaceholders(patterns[i])))]

\* "cursor.execute(query_string, query_parameters)": the VALUES of the
\* statement of a type, in the order of the text, and its parameters
OoExecuted(type, pattern_set) ==
    [blocks |-> TypeBlocks(PatternsOf(type, pattern_set)),
     params |-> TypeParameters(PatternsOf(type, pattern_set))]

\* No with-block entered on the connection.  scopes is the number of
\* with-blocks entered and not left; snapshot is the database when the
\* with-block of the generator was entered, ended is whether a commit or a
\* rollback was made on the connection since, the block still being open
NoScope == [scopes |-> 0, ended |-> FALSE, snapshot |-> <<>>]

\* No notification rendered yet
NoNotification == [rendered |-> FALSE, subject |-> <<>>, body |-> <<>>,
                   out_subject |-> <<>>, out_body |-> <<>>]

\* validate_main not run yet
NoValidation == [run |-> FALSE, urls |-> FALSE, catalog |-> <<>>,
                 requested |-> 0, printed |-> <<>>, escaped |-> FALSE,
                 status |-> 0]

\* The characters of the texts of a notification, as code points: a
\* single-byte one ("S"), a multi-byte one ("©"), and the two of the
\* scissors sign "✂️" (U+2702, U+FE0F)
CharS == 1
CharCopyright == 2
CharScissors == 3
CharVariation == 4
Scissors == <<CharScissors, CharVariation>>

\* The text cut at the limit, the scissors sign put after it
Trim_Append(text, max_len) ==
    IF Len(text) > max_len THEN SubSeq(text, 1, max_len) \o Scissors
    ELSE text

\* The text of a rendered message: as it is when no longer than max_len
\* characters, else cut so that it is max_len characters long with the
\* scissors sign at its end
Trim(text, max_len) ==
    IF Len(text) > max_len
    THEN SubSeq(text, 1, max_len - Len(Scissors)) \o Scissors
    ELSE text

\* Notification.render() of a message with the subject and the body
NotificationRender(subject, body) ==
    [rendered |-> TRUE, subject |-> subject, body |-> body,
     out_subject |-> Trim(subject, NOTIFICATION_MESSAGE_SUBJECT_MAX_LEN),
     out_body |-> Trim(body, NOTIFICATION_MESSAGE_BODY_MAX_LEN)]

\* A catalog entry, by what requests.head(test['home']) does: head is "ok",
\* "ssl" (it raises SSLError) or "error" (the request or raise_for_status
\* raises another RequestException); retry is what the request with
\* verify=False does, "ok" or "error"
CatalogEntry(head, retry) == [head |-> head, retry |-> retry]

RECURSIVE CheckUrls(_, _, _, _)
\* "for test in catalog.values()" from the i-th entry on: exc_list is the
\* entries whose exception was collected, requested the number of requests
\* made.  An exception raised by the retry inside "except SSLError" is
\* caught by no clause of the try statement and leaves the loop
CheckUrls(catalog, i, exc_list, requested) ==
    IF i > Len(catalog)
    THEN [escaped |-> FALSE, exc_list |-> exc_list, requested |-> requested]
    ELSE CASE catalog[i].head = "ok" ->
                CheckUrls(catalog, i + 1, exc_list, requested + 1)
           [] catalog[i].head = "error" ->
                CheckUrls(catalog, i + 1, Append(exc_list, i), requested + 1)
           [] catalog[i].head = "ssl" ->
                IF catalog[i].retry = "ok"
                THEN CheckUrls(catalog, i + 1, exc_list, requested + 2)
                ELSE [escaped |-> TRUE, exc_list |-> exc_list,
                      requested |-> requested + 2]

\* validate_main() with or without --urls on a valid catalog: the number of
\* requests made, the entries whose exception was printed, whether an
\* exception left the function, the status returned (<<>> when none)
ValidateMainResult(urls, catalog) ==
    IF ~urls
    THEN [run |-> TRUE, urls |-> urls, catalog |-> catalog, requested |-> 0,
          printed |-> <<>>, escaped |-> FALSE, status |-> <<0>>]
    ELSE LET r == CheckUrls(catalog, 1, <<>>, 0)
         IN IF r.escaped
            THEN [run |-> TRUE, urls |-> urls, catalog |-> catalog,
                  requested |-> r.requested, printed |-> <<>>,
                  escaped |-> TRUE, status |-> <<>>]
            ELSE [run |-> TRUE, urls |-> urls, catalog |-> catalog,
                  requested |-> r.requested, printed |-> r.exc_list,
                  escaped |-> FALSE,
                  status |-> IF r.exc_list # <<>> THEN <<1>> ELSE <<0>>]

\* No statement has failed
NoError == [op |-> "none", at |-> "", raised |-> FALSE, wrapped |-> FALSE,
            table |-> ""]

\* The backend's error raised as it is
CreateFailed_Bare(op, table_name) ==
    [op |-> op, at |-> table_name, raised |-> TRUE, wrapped |-> FALSE,
     table |-> ""]

\* "except Exception as exc: raise Exception(f"Failed creating table
\* {table_name!r}") from exc" of init and _inherit: the statement of the
\* table at fails in operation op, and the caller gets an error that wraps
\* the backend's and names the table
CreateFailed(op, table_name) ==
    [op |-> op, at |-> table_name, raised |-> TRUE, wrapped |-> TRUE,
     table |-> table_name]

\* "try: cursor.execute(...) finally: cursor.close()" of load, dump_iter,
\* query_iter, cleanup and empty: the statement of the table at fails in
\* operation op, and the caller gets the backend's error as it is
Propagated(op, at) ==
    [op |-> op, at |-> at, raised |-> TRUE, wrapped |-> FALSE, table |-> ""]

\* The tables after the CREATE TABLE statements that lead from pre to full
\* were executed up to the failAt-th table of the schema, which fails
\* (none fails when failAt is 0); a created table stays when a later
\* statement fails
CreatedTables(v, pre, full, failAt) ==
    IF failAt = 0 THEN full
    ELSE [t \in DOMAIN full \cap
                  (DOMAIN pre \cup {TABLES(v)[i] : i \in 1..(failAt - 1)})
             |-> full[t]]

\* The tables after the DROP TABLE statements of cleanup were executed up
\* to the failAt-th table of the schema, which fails (none fails when
\* failAt is 0)
DroppedTables(v, d, failAt) ==
    LET last == IF failAt = 0 THEN Len(TABLES(v)) ELSE failAt - 1
    IN [t \in DOMAIN d \ {TABLES(v)[i] : i \in 1..last} |-> d[t]]

\* No call of oo_query yet
NoOoQuery == [called |-> FALSE, pattern_set |-> {}, db |-> <<>>,
              raised |-> FALSE, objs |-> <<>>, statements |-> <<>>]

\* oo_query(pattern_set) on database d: the dictionary of object lists it
\* returns, or the error of the first statement SQLite refuses, recorded
\* with the arguments and the database of the call
OoQueryResult(v, d, pattern_set) ==
    LET types == QueriedTypes(pattern_set)
        res   == [type \in types |->
                    TypeQuery(v, d, type,
                              QueriesOf(v, d, type, pattern_set))]
        stmts == [type \in types |-> OoExecuted(type, pattern_set)]
    IN IF \E type \in types : ~res[type].ok
       THEN [called |-> TRUE, pattern_set |-> pattern_set, db |-> d,
             raised |-> TRUE, objs |-> <<>>, statements |-> stmts]
       ELSE [called |-> TRUE, pattern_set |-> pattern_set, db |-> d,
             raised |-> FALSE, objs |-> [type \in types |-> res[type].rows],
             statements |-> stmts]

----------------------------------------------------------------------------
(* dump_iter and query_iter: the generators *)

\* No generator
Idle == [pc |-> "idle", kind |-> "", n |-> 0, with_metadata |-> FALSE,
         ids |-> <<>>, children |-> FALSE, parents |-> FALSE,
         after |-> {}, until |-> {}, ti |-> 0, rest |-> <<>>]

\* The objects the statement executed for the i-th table returns on
\* database d, unpacked
ResultIn(d, g, i) ==
    LET t == TABLES(version)[i]
    IN IF g.kind = "dump"
       THEN UnpackIter(t, d[t], g.with_metadata)
       ELSE LET query == CompileQueries(version, g.ids, g.children,
                                        g.parents)[t]
            IN IF query.selects = <<>> THEN <<>>
               ELSE UnpackIter(t, FetchRows(d, t, query), g.with_metadata)

\* The objects the statement executed for the i-th table returns, unpacked
Result(g, i) == ResultIn(db, g, i)

\* The generator after rows were written, turning the database pre into
\* post, while it was reading the result of a statement: the rows the
\* statement would return on post and not on pre are met by the rest of
\* the reading or are not (SQLite leaves it open)
LoadSeen(g, pre, post) ==
    IF g.pc # "loop" THEN {g}
    ELSE LET old == ResultIn(pre, g, g.ti)
             new == SelectSeq(ResultIn(post, g, g.ti),
                              LAMBDA o : o \notin Range(old))
         IN {g, [g EXCEPT !.rest = g.rest \o new]}

\* The with-blocks of the connection after next() took a generator from
\* pc to pc2 on database d: "with self.conn" is entered when the generator
\* starts and left when its loop over the tables ends or raises
ScopeAfter(t, pc, pc2, d) ==
    LET entered == IF pc = "new"
                   THEN [scopes |-> t.scopes + 1, ended |-> FALSE,
                         snapshot |-> d]
                   ELSE t
    IN IF pc \in {"new", "loop"} /\ pc2 # "loop"
       THEN [entered EXCEPT !.scopes = @ - 1]
       ELSE entered

\* The with-blocks of the connection after the one of another operation
\* was entered and left, which commits or rolls back on the connection
ScopeEnded(t) == [t EXCEPT !.ended = @ \/ t.scopes > 0]

\* The object put in front of its list
AddObj_Prepend(data, t, obj) ==
    IF t \in DOMAIN data THEN [data EXCEPT ![t] = <<obj>> \o data[t]]
    ELSE data @@ (t :> <<obj>>)

\* "obj_list.append(obj)", the list being created in the document first
AddObj(data, t, obj) ==
    IF t \in DOMAIN data THEN [data EXCEPT ![t] = Append(data[t], obj)]
    ELSE data @@ (t :> <<obj>>)

\* The chunk test letting one object more in
ChunkFull_Late(n, obj_num) == n # 0 /\ obj_num > n

\* The chunk test without "objects_per_report and"
ChunkFull_NoZero(n, obj_num) == obj_num >= n

\* "if objects_per_report and obj_num >= objects_per_report"
ChunkFull(n, obj_num) == n # 0 /\ obj_num >= n

\* The last document yielded whatever it holds
TrailingChunk_Always(obj_num) == TRUE

\* "if obj_num" after the loop over the tables
TrailingChunk(obj_num) == obj_num # 0

\* The table the loop over the tables turns to after the i-th one
NextTable(i) == i + 1

\* "after.get(table_name)": whether the dictionary, given by its keys, has
\* a time for the table
WindowGet(keys, t) == t \in keys

\* Table.format_dump raises NoTimestamps: the table has no timestamp
\* (no table of v4.0 and v4.1 has one) and a time is given
FormatDumpRaises(has_after, has_until) == has_after \/ has_until

\* The statement of dump_iter for table t cannot be formatted
DumpRaises(g, t) ==
    /\ g.kind = "dump"
    /\ FormatDumpRaises(WindowGet(g.after, t), WindowGet(g.until, t))

RECURSIVE Run(_, _, _, _, _)
\* The generator runs from the i-th table with the objects "rest" of its
\* result not yet consumed, up to its next yield or to its end
Run(g, i, rest, obj_num, data) ==
    IF rest # <<>>
    THEN LET data1 == AddObj(data, TABLES(version)[i], Head(rest))
         IN IF ChunkFull(g.n, obj_num + 1)
            THEN [pc |-> "loop", yielded |-> TRUE, doc |-> data1,
                  ti |-> i, rest |-> Tail(rest)]
            ELSE Run(g, i, Tail(rest), obj_num + 1, data1)
    ELSE IF NextTable(i) <= Len(TABLES(version))
    THEN IF DumpRaises(g, TABLES(version)[NextTable(i)])
         THEN [pc |-> "raised", yielded |-> FALSE, doc |-> EmptyDoc,
               ti |-> NextTable(i), rest |-> <<>>]
         ELSE Run(g, NextTable(i), Result(g, NextTable(i)), obj_num, data)
    ELSE IF TrailingChunk(obj_num)
    THEN [pc |-> "tail", yielded |-> TRUE, doc |-> data,
          ti |-> i, rest |-> <<>>]
    ELSE [pc |-> "done", yielded |-> FALSE, doc |-> EmptyDoc,
          ti |-> i, rest |-> <<>>]

\* The number of objects a call selects, over all tables
Selected(g) ==
    LET f == [i \in DOMAIN TABLES(version) |-> Result(g, i)]
    IN SumLens(f, DOMAIN f)

----------------------------------------------------------------------------
(* Actions *)

Initialized == TableNames(version) \subseteq DOMAIN db

\* Connection(params)
Open ==
    /\ ~conn.opened
    /\ conn' = ConnectionInit(params, rnd)
    /\ UNCHANGED <<txn, note, vm, oo, err, inherited, uv, params, rnd, version, db, lastLoad, wins, gen, emitted>>

\* Schema.init() on an empty database: every table of the schema is
\* created, up to the failAt-th, whose statement fails (0: none fails)
SchemaInit(failAt) ==
    /\ conn.opened
    /\ DOMAIN db = {}
    /\ db' = CreatedTables(version, db, [t \in TableNames(version) |-> <<>>],
                           failAt)
    /\ err' = IF failAt = 0 THEN err
              ELSE CreateFailed("init", TABLES(version)[failAt])
    /\ UNCHANGED <<txn, note, vm, oo, inherited, uv, params, rnd, conn, version, lastLoad, wins, gen, emitted>>

\* Schema._inherit(conn) of v4.1 on a database complying with v4.0; the
\* statement of the failAt-th table fails (0: none fails)
Inherit(failAt) ==
    /\ conn.opened
    /\ DOMAIN db = TableNames(version)
    /\ gen.pc = "idle"
    /\ version = PreviousSchema("v4.1")
    /\ failAt # 0 => /\ failAt \in DOMAIN TABLES("v4.1")
                     /\ TABLES("v4.1")[failAt] \notin TableNames(version)
    /\ db' = CreatedTables("v4.1", db, InheritTables("v4.1", db, 1), failAt)
    /\ version' = IF failAt = 0 THEN "v4.1" ELSE version
    /\ inherited' = IF failAt = 0 THEN [done |-> TRUE, pre |-> db, again |-> FALSE]
                    ELSE inherited
    /\ err' = IF failAt = 0 THEN err
              ELSE CreateFailed("_inherit", TABLES("v4.1")[failAt])
    /\ UNCHANGED <<txn, note, vm, oo, uv, params, rnd, conn, lastLoad, wins, gen, emitted>>

\* Schema._inherit(conn) of v4.1 applied again to the upgraded database:
\* the statement of the failAt-th table fails, the table being there
\* already (0: none fails)
InheritAgain(failAt) ==
    /\ conn.opened
    /\ DOMAIN db = TableNames("v4.1")
    /\ gen.pc = "idle"
    /\ version = "v4.1"
    /\ inherited.done
    /\ failAt # 0 => /\ failAt \in DOMAIN TABLES("v4.1")
                     /\ TABLES("v4.1")[failAt] \notin
                           TableNames(PreviousSchema("v4.1"))
    /\ db' = CreatedTables("v4.1", db, InheritTables("v4.1", db, 1), failAt)
    /\ inherited' = [inherited EXCEPT !.again = TRUE]
    /\ err' = IF failAt = 0 THEN err
              ELSE CreateFailed("_inherit", TABLES("v4.1")[failAt])
    /\ UNCHANGED <<txn, note, vm, oo, uv, params, rnd, conn, version, lastLoad,
                   wins, gen, emitted>>

\* Schema.cleanup(): every table of the schema is dropped, up to the
\* failAt-th, whose statement fails (0: none fails)
Cleanup(failAt) ==
    /\ conn.opened
    /\ Initialized
    /\ gen.pc = "idle"
    /\ failAt \in 0..Len(TABLES(version))
    /\ db' = DroppedTables(version, db, failAt)
    /\ err' = IF failAt = 0 THEN err
              ELSE Propagated("cleanup", TABLES(version)[failAt])
    /\ UNCHANGED <<txn, note, vm, oo, inherited, uv, params, rnd, conn, version, lastLoad,
                   wins, gen, emitted>>

\* Schema.empty(): the rows of every table of the schema are deleted, in
\* one transaction; the statement of the failAt-th table fails (0: none
\* fails)
Empty(failAt) ==
    /\ conn.opened
    /\ Initialized
    /\ gen.pc = "idle"
    /\ failAt \in 0..Len(TABLES(version))
    /\ db' = ConnExit(db,
                      [t \in DOMAIN db |->
                          IF t \in TableNames(version) THEN <<>> ELSE db[t]],
                      failAt # 0)
    /\ err' = IF failAt = 0 THEN err
              ELSE Propagated("empty", TABLES(version)[failAt])
    /\ UNCHANGED <<txn, note, vm, oo, inherited, uv, params, rnd, conn, version, lastLoad,
                   wins, gen, emitted>>

\* Notification(obj, subscription, NotificationMessage(to, subject,
\* body)).render()
Render(subject, body) ==
    /\ note' = NotificationRender(subject, body)
    /\ UNCHANGED <<params, rnd, conn, version, db, lastLoad, wins, gen,
                   emitted, uv, inherited, oo, err, txn, vm>>

\* validate_main(), the catalog read from the standard input
ValidateMain(urls, catalog) ==
    /\ vm' = ValidateMainResult(urls, catalog)
    /\ UNCHANGED <<params, rnd, conn, version, db, lastLoad, wins, gen,
                   emitted, uv, inherited, oo, err, txn, note>>

\* oo_query(pattern_set)
OoQuery(pattern_set) ==
    /\ conn.opened
    /\ Initialized
    /\ gen.pc = "idle"
    /\ oo' = OoQueryResult(version, db, pattern_set)
    /\ UNCHANGED <<txn, note, vm, err, inherited, uv, params, rnd, conn, version, db,
                   lastLoad, wins, gen, emitted>>

\* Connection.set_schema_version(v)
SetSchemaVersion(v) ==
    /\ conn.opened
    /\ uv' = [uv EXCEPT !.user_version = PragmaSet(VersionNumber(v)),
                        !.op = "set", !.was_set = TRUE, !.set = v]
    /\ UNCHANGED <<txn, note, vm, oo, err, inherited, params, rnd, conn, version, db, lastLoad,
                   wins, gen, emitted>>

\* Connection.get_schema_version()
GetSchemaVersion ==
    /\ conn.opened
    /\ uv' = [uv EXCEPT !.op = "get", !.got = NumberVersion(uv.user_version)]
    /\ UNCHANGED <<txn, note, vm, oo, err, inherited, params, rnd, conn, version, db, lastLoad,
                   wins, gen, emitted>>

\* Schema.load(data, with_metadata, copy); failAt is the table whose
\* executemany raises a backend error, 0 when none does, and AssertFails
\* when the document fails the checks made before the transaction
Load(doc, with_metadata, failAt) ==
    /\ conn.opened
    /\ Initialized
    /\ DOMAIN doc \subseteq TableNames(version)
    /\ failAt \notin {0, AssertFails} =>
            /\ failAt \in DOMAIN TABLES(version)
            /\ LoadHasTable(TABLES(version)[failAt], doc)
    /\ LET raised == failAt # 0
           after == LoadTables(version, db, Executed(version, doc, failAt),
                               LoadPrio(conn), with_metadata, 1)
           post == IF failAt = AssertFails THEN db
                   ELSE ConnExit(db, after, raised)
       IN /\ db' = post
          /\ conn' = [conn EXCEPT !.load_prio_db =
                        LoadPrioAfter(conn.load_prio_db, raised)]
          /\ lastLoad' = [called |-> TRUE, doc |-> doc,
                          with_metadata |-> with_metadata,
                          prio |-> conn.load_prio_db,
                          raised |-> raised, pre |-> db,
                          count |-> lastLoad.count + 1,
                          failAt |-> failAt]
          /\ wins' = Last3(Append(wins,
                        IF raised THEN {"raised"}
                        ELSE Sides(version, db, post, doc, with_metadata)))
          /\ gen' \in LoadSeen(gen, db, post)
          /\ txn' = IF failAt = AssertFails THEN txn ELSE ScopeEnded(txn)
    /\ err' = IF failAt \in {0, AssertFails} THEN err
              ELSE Propagated("load", TABLES(version)[failAt])
    /\ UNCHANGED <<note, vm, oo, inherited, uv, params, rnd, version,
                   emitted>>

\* dump_iter(objects_per_report, with_metadata, after, until) is called,
\* after and until given by their keys
DumpStart(n, with_metadata, after, until) ==
    /\ conn.opened
    /\ Initialized
    /\ gen.pc = "idle"
    /\ gen' = [Idle EXCEPT !.pc = "new", !.kind = "dump", !.n = n,
                           !.with_metadata = with_metadata,
                           !.after = after, !.until = until]
    /\ emitted' = <<>>
    /\ UNCHANGED <<txn, note, vm, oo, err, inherited, uv, params, rnd, conn, version, db, lastLoad, wins>>

\* query_iter(ids, children, parents, objects_per_report, with_metadata)
\* is called
QueryStart(ids, children, parents, n, with_metadata) ==
    /\ conn.opened
    /\ Initialized
    /\ gen.pc = "idle"
    /\ DOMAIN ids \subseteq TableNames(version)
    /\ gen' = [Idle EXCEPT !.pc = "new", !.kind = "query", !.n = n,
                           !.with_metadata = with_metadata, !.ids = ids,
                           !.children = children, !.parents = parents]
    /\ emitted' = <<>>
    /\ UNCHANGED <<txn, note, vm, oo, err, inherited, uv, params, rnd, conn, version, db, lastLoad, wins>>

\* The name of the operation of a generator
GenOp(g) == IF g.kind = "dump" THEN "dump_iter" ELSE "query_iter"

\* next() on the generator: it runs to its next yield, or to its end; when
\* fails, the first statement it executes, or the first row it fetches,
\* fails
GenNext(fails) ==
    /\ gen.pc \in {"new", "loop", "tail"}
    /\ fails => gen.pc # "tail"
    /\ LET r == IF fails
                THEN [pc |-> "raised", yielded |-> FALSE, doc |-> EmptyDoc,
                      ti |-> Max(gen.ti, 1), rest |-> <<>>]
                ELSE IF gen.pc = "tail"
                THEN [pc |-> "done", yielded |-> FALSE, doc |-> EmptyDoc,
                      ti |-> gen.ti, rest |-> <<>>]
                ELSE Run(gen, gen.ti, gen.rest, 0, EmptyDoc)
       IN /\ gen' = [gen EXCEPT !.pc = r.pc, !.ti = r.ti, !.rest = r.rest]
          /\ emitted' = IF r.yielded THEN Append(emitted, r.doc) ELSE emitted
          /\ err' = IF fails
                    THEN Propagated(GenOp(gen), TABLES(version)[r.ti])
                    ELSE err
          /\ txn' = ScopeAfter(txn, gen.pc, r.pc, db)
    /\ UNCHANGED <<note, vm, oo, inherited, uv, params, rnd, conn, version, db, lastLoad, wins>>

\* The consumer drops the exhausted generator and its documents
Close ==
    /\ gen.pc \in {"done", "raised"}
    /\ gen' = Idle
    /\ emitted' = <<>>
    /\ txn' = NoScope
    /\ UNCHANGED <<note, vm, oo, err, inherited, uv, params, rnd, conn, version, db, lastLoad, wins>>

----------------------------------------------------------------------------
(* Objects the documents are made of *)

CheckoutRow(id, comment, start_time) ==
    [id |-> id, comment |-> comment, start_time |-> start_time]
BuildRow(id, checkout_id, comment) ==
    [checkout_id |-> checkout_id, id |-> id, comment |-> comment]
TestRow(id, build_id, comment) ==
    [build_id |-> build_id, id |-> id, comment |-> comment]
IssueRow(id, ver, comment) ==
    [id |-> id, version |-> ver, comment |-> comment]
IncidentRow(id, issue_id, issue_version, build_id, test_id) ==
    [id |-> id, issue_id |-> issue_id, issue_version |-> issue_version,
     build_id |-> build_id, test_id |-> test_id, comment |-> NULL]

\* The report object with the fields of r that have a value
Obj(r) == [c \in {x \in DOMAIN r : r[x] # NULL} |-> r[c]]

\* The 4.0 objects of the documents of a dump: checkout 1 three times over
\* (bare, with a timestamp in the fixed spelling, with one in another
\* spelling), and a second family
DumpObjs40 ==
    << <<"checkouts", Obj(CheckoutRow(1, NULL, NULL))>>,
       <<"checkouts", Obj(CheckoutRow(1, 1, TsText(1, 0)))>>,
       <<"checkouts", Obj(CheckoutRow(1, NULL, TsText(2, 1)))>>,
       <<"checkouts", Obj(CheckoutRow(2, NULL, NULL))>>,
       <<"builds", Obj(BuildRow(1, 1, NULL))>>,
       <<"builds", Obj(BuildRow(2, 1, 1))>>,
       <<"tests", Obj(TestRow(1, 1, NULL))>>,
       <<"tests", Obj(TestRow(2, 2, 1))>> >>

DumpObjs41 ==
    << <<"issues", Obj(IssueRow(1, 1, NULL))>>,
       <<"incidents", Obj(IncidentRow(1, 1, 1, 1, NULL))>> >>

DumpObjs(v) == IF v = "v4.0" THEN DumpObjs40 ELSE DumpObjs40 \o DumpObjs41

\* The objects of the documents of a query: two tests of build 1 of
\* checkout 1, build 2 of checkout 2, and an incident of build 2 and test 1
GraphObjs40 ==
    << <<"checkouts", Obj(CheckoutRow(1, NULL, NULL))>>,
       <<"checkouts", Obj(CheckoutRow(2, NULL, NULL))>>,
       <<"builds", Obj(BuildRow(1, 1, NULL))>>,
       <<"builds", Obj(BuildRow(2, 2, NULL))>>,
       <<"tests", Obj(TestRow(1, 1, NULL))>>,
       <<"tests", Obj(TestRow(2, 1, NULL))>> >>

GraphObjs41 ==
    << <<"issues", Obj(IssueRow(1, 1, NULL))>>,
       <<"incidents", Obj(IncidentRow(1, 1, 1, 2, 1))>> >>

GraphObjs(v) == IF v = "v4.0" THEN GraphObjs40 ELSE GraphObjs40 \o GraphObjs41

\* The objects of the documents of colliding loads: checkout 1 and build 1,
\* each with and without a comment
ConflictObjs ==
    { <<"checkouts", Obj(CheckoutRow(1, NULL, NULL))>>,
      <<"checkouts", Obj(CheckoutRow(1, 1, NULL))>>,
      <<"builds", Obj(BuildRow(1, 1, NULL))>>,
      <<"builds", Obj(BuildRow(1, 1, 1))>> }

\* A checkout of the revision (git_commit_hash, patchset_hash)
RevisionCheckout(id, git_commit_hash, patchset_hash) ==
    [id |-> id, git_commit_hash |-> git_commit_hash,
     patchset_hash |-> patchset_hash]

\* The 4.0 objects of the documents of an OO query: checkouts 1 and 2 of
\* revision (1, 1), checkout 3 of revision (2, 1), checkout 4 with a
\* commit hash and no patchset hash, builds of checkouts 1 and 3, a test
\* of build 1
OoObjs40 ==
    << <<"checkouts", Obj(RevisionCheckout(1, 1, 1))>>,
       <<"checkouts", Obj(RevisionCheckout(2, 1, 1))>>,
       <<"checkouts", Obj(RevisionCheckout(3, 2, 1))>>,
       <<"checkouts", Obj(RevisionCheckout(4, 2, NULL))>>,
       <<"builds", Obj(BuildRow(1, 1, NULL))>>,
       <<"builds", Obj(BuildRow(2, 3, NULL))>>,
       <<"tests", Obj(TestRow(1, 1, NULL))>> >>

\* Two versions of issue 1 and an incident of the second with build 1
OoObjs41 ==
    << <<"issues", Obj(IssueRow(1, 1, NULL))>>,
       <<"issues", Obj(IssueRow(1, 2, NULL))>>,
       <<"incidents", Obj(IncidentRow(1, 1, 2, 1, NULL))>> >>

OoObjs(v) == IF v = "v4.0" THEN OoObjs40 ELSE OoObjs40 \o OoObjs41

\* The ID of the first object of a type, and the ID of another
OoId(type, k) ==
    CASE type = "revision"      -> <<k, 1>>
      [] type = "issue_version" -> <<1, k>>
      [] OTHER                  -> <<k>>

\* The patterns with no base: every object of a type, the objects of an
\* empty ID set, the objects of an ID set of one or of two
PlainPatterns(type) ==
    {Pattern(<<>>, TRUE, type, FALSE, {}),
     Pattern(<<>>, TRUE, type, TRUE, {}),
     Pattern(<<>>, TRUE, type, TRUE, {OoId(type, 1)}),
     Pattern(<<>>, TRUE, type, TRUE, {OoId(type, 1), OoId(type, 2)})}

\* The patterns for the children, and for the parents, of the objects of a
\* pattern with no base
ChainedPatterns(type) ==
    UNION {{Pattern(<<base>>, TRUE, type, FALSE, {}) :
                base \in PlainPatterns(parent)} :
              parent \in {x \in Range(OO_TYPES) : type \in OoChildren(x)}}
    \cup
    UNION {{Pattern(<<base>>, FALSE, type, FALSE, {}) :
                base \in PlainPatterns(child)} : child \in OoChildren(type)}

Patterns(type) == PlainPatterns(type) \cup ChainedPatterns(type)

\* The pattern sets of one pattern, and those of the pattern for the
\* first object of a type and at most MaxPatterns - 1 other patterns of
\* the type
PatternSets ==
    UNION {{{Pattern(<<>>, TRUE, type, TRUE, {OoId(type, 1)})} \cup S :
                S \in {T \in SUBSET Patterns(type) :
                          Cardinality(T) < MaxPatterns}} :
              type \in Range(OO_TYPES)}
    \cup {{p} : p \in UNION {Patterns(type) : type \in Range(OO_TYPES)}}

\* The members of the sequence u at the positions S, in order
Pick(u, S) == SelectSeq([i \in DOMAIN u |-> <<i, u[i]>>],
                        LAMBDA p : p[1] \in S)

\* The documents made of at most k of the objects of u, in the order of u
DocsOf(u, k) ==
    {LET p == Pick(u, S) IN MkDoc([i \in DOMAIN p |-> p[i][2]]) :
        S \in {T \in SUBSET DOMAIN u : Cardinality(T) <= k}}

\* The documents made of all but at most k of the objects of u, in the
\* order of u
DocsMissing(u, k) ==
    {LET p == Pick(u, S) IN MkDoc([i \in DOMAIN p |-> p[i][2]]) :
        S \in {T \in SUBSET DOMAIN u : Cardinality(T) >= Len(u) - k}}

\* The documents of the objects of the set U, at most k of them in any order
DocsOver(U, k) == {MkDoc(s) : s \in SeqsUpTo(U, k)}

\* The ID tuples queries ask for
QueryKeys(t) == IF t = "issues" THEN {<<i, 1>> : i \in Ids}
                ELSE {<<i>> : i \in Ids}

\* ids arguments naming one ID of one object list
OneId(v) == UNION {{t :> <<k>> : k \in QueryKeys(t)} : t \in TableNames(v)}

\* ids arguments naming ID 1 of one object list
FirstId(v) ==
    {t :> <<IF t = "issues" THEN <<1, 1>> ELSE <<1>> >> : t \in TableNames(v)}

\* ids arguments naming IDs 1 and 2 of one object list, or ID 1 twice
TwoIds(v) ==
    {t :> <<IF t = "issues" THEN <<1, 1>> ELSE <<1>>,
            IF t = "issues" THEN <<j, 1>> ELSE <<j>> >> :
        t \in TableNames(v), j \in 1..2}

----------------------------------------------------------------------------
(* Specifications *)

\* load may be called, for at most the cap-th time
CanLoad(cap) ==
    conn.opened /\ Initialized /\ gen.pc = "idle" /\ lastLoad.count < cap

\* dump_iter or query_iter may be called
CanStart == conn.opened /\ Initialized /\ gen.pc = "idle"

InitWith(P, R) ==
    /\ params \in P
    /\ rnd \in R
    /\ conn = Closed
    /\ version \in {"v4.0", "v4.1"}
    /\ db = <<>>
    /\ lastLoad = NoLoad
    /\ wins = <<>>
    /\ gen = Idle
    /\ emitted = <<>>
    /\ uv = NoVersion
    /\ inherited = NotInherited
    /\ oo = NoOoQuery
    /\ err = NoError
    /\ txn = NoScope
    /\ note = NoNotification
    /\ vm = NoValidation

\* Opening connections with every parameter string
InitConn == InitWith(ParamStrings, BOOLEAN)
NextConn == Open
SpecConn == InitConn /\ [][NextConn]_vars

\* A connection opened on the database "a"
InitMain == InitWith({<<"a">>}, {FALSE})

\* Dumps and queries of a database populated by one load, in chunks of
\* every size
NextDump ==
    \/ Open
    \/ SchemaInit(0)
    \/ /\ CanLoad(1)
       /\ \E doc \in DocsOf(DumpObjs(version), MaxDocObjs),
             with_metadata \in BOOLEAN : Load(doc, with_metadata, 0)
    \/ /\ CanStart
       /\ \E n \in 0..MaxN, with_metadata \in BOOLEAN :
             DumpStart(n, with_metadata, {}, {})
    \/ /\ CanStart
       /\ \E ids \in FirstId(version), both \in BOOLEAN, n \in 0..MaxN :
             QueryStart(ids, both, both, n, FALSE)
    \/ GenNext(FALSE)
    \/ Close
Spec == InitMain /\ [][NextDump]_vars

\* The version tuples set: small ones, minor versions around 1000, and
\* major versions around the largest one user_version holds
Majors == 0..MaxMajor \cup {UserVersionMax \div 1000, UserVersionMax \div 1000 + 1}
Minors == 0..MaxMinor \cup {999, 1000, 1001}
VersionArgs == {None} \cup {<<a, b>> : a \in Majors, b \in Minors}

\* Setting and getting the schema version on an open connection
NextVersion ==
    \/ Open
    \/ \E v \in VersionArgs : SetSchemaVersion(v)
    \/ GetSchemaVersion
SpecVersion == InitMain /\ [][NextVersion]_vars

\* A v4.0 database loaded, then upgraded to v4.1, or upgraded, then loaded
NextInherit ==
    \/ Open
    \/ SchemaInit(0)
    \/ /\ CanLoad(1)
       /\ \E doc \in DocsOf(DumpObjs(version), MaxDocObjs) :
             Load(doc, FALSE, 0)
    \/ Inherit(0)
SpecInherit == InitMain /\ [][NextInherit]_vars

\* A v4.0 database upgraded to v4.1 and upgraded again, loaded before or
\* after; the second time a CREATE TABLE of a table that is there does
\* nothing or fails
NextUpgrade ==
    \/ Open
    \/ SchemaInit(0)
    \/ /\ CanLoad(MaxTxnLoads)
       /\ \E doc \in DocsOf(DumpObjs(version), MaxDocObjs) :
             Load(doc, FALSE, 0)
    \/ Inherit(0)
    \/ \E failAt \in {0} \cup DOMAIN TABLES("v4.1") : InheritAgain(failAt)
SpecUpgrade == InitMain /\ [][NextUpgrade]_vars

\* The keys of the after and until arguments: names of object lists of
\* the schema, among the first and the last one of v4.0 and one v4.1 adds
WindowKeys(v) == {"checkouts", "tests", "issues"} \cap TableNames(v)

\* Dumps with a time window of a database populated by one load
NextWindow ==
    \/ Open
    \/ SchemaInit(0)
    \/ /\ CanLoad(1)
       /\ \E doc \in DocsOf(DumpObjs(version), MaxDocObjs) :
             Load(doc, FALSE, 0)
    \/ /\ CanStart
       /\ \E n \in 0..MaxN, after \in SUBSET WindowKeys(version),
             until \in {{}, {"checkouts"}} :
             DumpStart(n, FALSE, after, until)
    \/ GenNext(FALSE)
    \/ Close
SpecWindow == InitMain /\ [][NextWindow]_vars

\* Every operation that executes statements, with and without a statement
\* that fails, on a database populated by one load and read one object at
\* a time
NextErr ==
    \/ Open
    \/ /\ conn.opened
       /\ \E failAt \in 0..Len(TABLES(version)) : SchemaInit(failAt)
    \/ /\ conn.opened
       /\ \E failAt \in 0..Len(TABLES("v4.1")) : Inherit(failAt)
    \/ /\ CanLoad(1)
       /\ \E doc \in DocsOf(GraphObjs(version), MaxErrObjs),
             failAt \in 0..Len(TABLES(version)) : Load(doc, FALSE, failAt)
    \/ /\ CanStart
       /\ \E failAt \in 0..Len(TABLES(version)) : Cleanup(failAt)
    \/ /\ CanStart
       /\ \E failAt \in 0..Len(TABLES(version)) : Empty(failAt)
    \/ /\ CanStart
       /\ DumpStart(1, FALSE, {}, {})
    \/ /\ CanStart
       /\ \E ids \in FirstId(version) :
             QueryStart(ids, FALSE, FALSE, 1, FALSE)
    \/ \E fails \in BOOLEAN : GenNext(fails)
    \/ Close
SpecErr == InitMain /\ [][NextErr]_vars

\* The texts of at most MaxText characters, single-byte and multi-byte
Texts == SeqsUpTo({CharS, CharCopyright}, MaxText)

\* One notification rendered
NextRender ==
    /\ ~note.rendered
    /\ \E subject \in Texts, body \in Texts : Render(subject, body)
SpecRender == InitMain /\ [][NextRender]_vars

\* The objects of the documents loaded around a dump: two checkouts and a
\* build of the first
TxnObjs ==
    << <<"checkouts", Obj(CheckoutRow(1, NULL, NULL))>>,
       <<"checkouts", Obj(CheckoutRow(2, NULL, NULL))>>,
       <<"builds", Obj(BuildRow(1, 1, NULL))>> >>

\* load may be called whatever the generator is at, for at most the
\* cap-th time
CanLoadAnytime(cap) == conn.opened /\ Initialized /\ lastLoad.count < cap

\* Dumps and queries, one object a document, with loads before and
\* between the documents
NextTxn ==
    \/ Open
    \/ SchemaInit(0)
    \/ /\ CanLoadAnytime(MaxTxnLoads)
       /\ \E doc \in DocsOf(TxnObjs, MaxTxnObjs),
             failAt \in {0, 1} : Load(doc, FALSE, failAt)
    \/ /\ CanStart
       /\ DumpStart(1, FALSE, {}, {})
    \/ /\ CanStart
       /\ \E ids \in FirstId(version) :
             QueryStart(ids, TRUE, FALSE, 1, FALSE)
    \/ GenNext(FALSE)
    \/ Close
SpecTxn == InitMain /\ [][NextTxn]_vars

\* The catalogs of at most MaxCatalog entries
CatalogEntries ==
    {CatalogEntry("ok", "ok"), CatalogEntry("error", "ok"),
     CatalogEntry("ssl", "ok"), CatalogEntry("ssl", "error")}
Catalogs == SeqsUpTo(CatalogEntries, MaxCatalog)

\* Runs of validate_main
NextValidate ==
    \E urls \in BOOLEAN, catalog \in Catalogs : ValidateMain(urls, catalog)
SpecValidate == InitMain /\ [][NextValidate]_vars

\* The ID sets of the patterns of a type: none, an empty one, one ID, two
OwnIdSets(type) ==
    {[restricted |-> FALSE, ids |-> {}],
     [restricted |-> TRUE, ids |-> {}],
     [restricted |-> TRUE, ids |-> {OoId(type, 1)}],
     [restricted |-> TRUE, ids |-> {OoId(type, 1), OoId(type, 2)}]}

\* The ID sets of the patterns that have a base: none, two IDs
ChainedIdSets(type) ==
    {o \in OwnIdSets(type) : Cardinality(o.ids) # 1 /\ (o.restricted => o.ids # {})}

RECURSIVE NestedPatterns(_, _)
\* The patterns of a type with exactly depth bases one in the other, with
\* and without ID sets at every level
NestedPatterns(type, depth) ==
    IF depth = 0
    THEN {Pattern(<<>>, TRUE, type, o.restricted, o.ids) :
             o \in OwnIdSets(type)}
    ELSE UNION {{Pattern(<<base>>, TRUE, type, o.restricted, o.ids) :
                    base \in NestedPatterns(parent, depth - 1),
                    o \in ChainedIdSets(type)} :
                  parent \in {x \in Range(OO_TYPES) :
                                 type \in OoChildren(x)}}
         \cup
         UNION {{Pattern(<<base>>, FALSE, type, o.restricted, o.ids) :
                    base \in NestedPatterns(child, depth - 1),
                    o \in ChainedIdSets(type)} :
                  child \in OoChildren(type)}

\* The pattern sets of one pattern nested at most MaxDepth deep, and
\* those of two patterns of a type, one of them with a base
NestedPatternSets ==
    {{p} : p \in UNION {NestedPatterns(type, depth) :
                           type \in Range(OO_TYPES), depth \in 0..MaxDepth}}
    \cup
    UNION {{{Pattern(<<>>, TRUE, type, TRUE, {OoId(type, 1)}), p} :
               p \in NestedPatterns(type, 1)} : type \in Range(OO_TYPES)}

\* ids arguments naming no object: no object list, and object lists with
\* empty lists of IDs
NoIds(v) ==
    {<<>>} \cup {t :> <<>> : t \in TableNames(v)}
    \cup {("checkouts" :> <<>>) @@ ("tests" :> <<>>)}

\* ids arguments naming objects of several object lists, and one naming
\* objects of one and no object of another
SeveralIds(v) ==
    {("checkouts" :> <<<<1>>>>) @@ ("builds" :> <<<<2>>, <<1>>>>),
     ("builds" :> <<<<1>>>>) @@ ("tests" :> <<<<2>>>>),
     ("checkouts" :> <<>>) @@ ("builds" :> <<<<1>>>>)}
    \cup (IF "issues" \in TableNames(v)
          THEN {("issues" :> <<<<1, 2>>>>) @@ ("incidents" :> <<<<2>>>>)}
          ELSE {})

\* OO queries with nested patterns, and queries with IDs of several
\* object lists and of none, of a database that is empty or holds every
\* object of the graph; the queries with IDs are made before the OO
\* query, or after one of MaxPatterns patterns
NextParams ==
    \/ Open
    \/ SchemaInit(0)
    \/ /\ CanLoad(1)
       /\ \E doc \in DocsMissing(GraphObjs(version), 0) : Load(doc, FALSE, 0)
    \/ /\ CanStart
       /\ ~oo.called
       /\ \E pattern_set \in NestedPatternSets : OoQuery(pattern_set)
    \/ /\ CanStart
       /\ oo.called => Cardinality(oo.pattern_set) = MaxPatterns
       /\ \E ids \in NoIds(version) \cup SeveralIds(version),
             children \in BOOLEAN, parents \in BOOLEAN :
             QueryStart(ids, children, parents, 0, FALSE)
    \/ GenNext(FALSE)
    \/ Close
SpecParams == InitMain /\ [][NextParams]_vars

\* One OO query of a database populated by one load
NextOo ==
    \/ Open
    \/ SchemaInit(0)
    \/ /\ CanLoad(1)
       /\ \E doc \in DocsOf(OoObjs(version), MaxDocObjs) :
             Load(doc, FALSE, 0)
    \/ /\ CanStart
       /\ ~oo.called
       /\ \E pattern_set \in PatternSets : OoQuery(pattern_set)
SpecOo == InitMain /\ [][NextOo]_vars

\* Queries of every kind of a database populated by one load
NextQuery ==
    \/ Open
    \/ SchemaInit(0)
    \/ /\ CanLoad(1)
       /\ \E doc \in DocsMissing(GraphObjs(version), MaxMissing) :
             Load(doc, FALSE, 0)
    \/ /\ CanStart
       /\ \E ids \in OneId(version) \cup TwoIds(version),
             children \in BOOLEAN, parents \in BOOLEAN, n \in {0, MaxN} :
             QueryStart(ids, children, parents, n, FALSE)
    \/ GenNext(FALSE)
    \/ Close
SpecQuery == InitMain /\ [][NextQuery]_vars

\* Loads that collide, some of them failing
InitLoad == InitWith({<<"a">>}, BOOLEAN)
NextLoad ==
    \/ Open
    \/ SchemaInit(0)
    \/ /\ CanLoad(MaxLoads)
       /\ \E doc \in DocsOver(ConflictObjs, MaxConflictObjs),
             failAt \in AssertFails..Len(V40_TABLES) :
                Load(doc, FALSE, failAt)
SpecLoad == InitLoad /\ [][NextLoad]_vars

----------------------------------------------------------------------------
(* Properties *)

\* The objects of table t in a sequence of documents, in emission order
RECURSIVE ConcatLists(_, _)
ConcatLists(docs, t) ==
    IF docs = <<>> THEN <<>>
    ELSE DocList(Head(docs), t) \o ConcatLists(Tail(docs), t)

CeilDiv(k, n) == (k + n - 1) \div n

TableIndex(t) == CHOOSE i \in DOMAIN V41_TABLES : V41_TABLES[i] = t

\* C8: a parameter string with exactly one leading '!' gives
\* load_prio_db = TRUE and opens the database named by the rest; one with
\* two or more leading '!' opens the database named by all but its first
\* character, a name starting with '!', and like a string with no leading
\* '!' keeps the random value of the flag
C8_InitialPriority ==
    conn.opened =>
        LET bangs == Cardinality({i \in DOMAIN params :
                        \A j \in 1..i : params[j] = "!"})
            rest == SubSeq(params, 2, Len(params))
        IN /\ bangs = 1 => conn.load_prio_db /\ conn.database = rest
           /\ bangs >= 2 => /\ conn.database = rest
                            /\ conn.database[1] = "!"
                            /\ conn.load_prio_db = rnd
           /\ bangs = 0 => conn.load_prio_db = rnd /\ conn.database = params

\* A connection opened with "!!a" whose random flag value FALSE is kept
C8_Witness ==
    /\ conn.opened
    /\ params = <<"!", "!", "a">>
    /\ ~rnd
    /\ ~conn.load_prio_db
    /\ conn.database = <<"!", "a">>

\* C1: with objects_per_report = n > 0 every document emitted holds at
\* most n objects, every document but the last holds exactly n, and a fully
\* consumed dump_iter or query_iter selecting k objects has emitted
\* ceil(k/n) documents, the last one holding the k mod n objects left over
\* when n does not divide k
C1_Chunking ==
    (gen.pc \in {"loop", "tail", "done"} /\ gen.n > 0) =>
        /\ \A i \in DOMAIN emitted : DocSize(emitted[i]) <= gen.n
        /\ \A i \in 1..(Len(emitted) - 1) : DocSize(emitted[i]) = gen.n
        /\ gen.pc = "done" =>
            LET k == Selected(gen)
            IN /\ Len(emitted) = CeilDiv(k, gen.n)
               /\ k % gen.n # 0 =>
                    DocSize(emitted[Len(emitted)]) = k % gen.n

\* A fully consumed query_iter whose last document is a partial chunk
C1_Witness ==
    /\ gen.pc = "done"
    /\ gen.kind = "query"
    /\ gen.n > 1
    /\ Selected(gen) % gen.n # 0
    /\ Len(emitted) >= 2

\* C2 as stated: with objects_per_report = 0 a fully consumed generator has
\* emitted exactly one document, whatever the number of selected objects
C2_AlwaysOneDocument ==
    (gen.pc = "done" /\ gen.n = 0) =>
        /\ Len(emitted) = 1
        /\ DocSize(emitted[1]) = Selected(gen)

\* C2: with objects_per_report = 0 a fully consumed generator has emitted
\* exactly one document holding every selected object when any object is
\* selected, and no document when none is
C2_Unlimited ==
    (gen.pc = "done" /\ gen.n = 0) =>
        IF Selected(gen) = 0 THEN emitted = <<>>
        ELSE /\ Len(emitted) = 1
             /\ \A i \in DOMAIN TABLES(version) :
                    DocList(emitted[1], TABLES(version)[i]) = Result(gen, i)

\* An unlimited dump of three or more objects of two or more tables
C2_Witness ==
    /\ gen.pc = "done"
    /\ gen.kind = "dump"
    /\ gen.n = 0
    /\ Selected(gen) >= 3
    /\ Len(emitted) = 1
    /\ Cardinality(DOMAIN emitted[1]) >= 2

\* C3: the documents of a fully consumed dump_iter, concatenated per table
\* in emission order, give the rows of that table as the database returned
\* them, and no document holds objects of a table declared before a table
\* an earlier document holds objects of
C3_NoReorder ==
    (gen.pc = "done" /\ gen.kind = "dump") =>
        /\ \A t \in TableNames(version) :
              ConcatLists(emitted, t) =
                  UnpackIter(t, db[t], gen.with_metadata)
        /\ \A a \in DOMAIN emitted : \A b \in DOMAIN emitted :
              a < b =>
                \A ta \in DOMAIN emitted[a] : \A tb \in DOMAIN emitted[b] :
                    TableIndex(ta) <= TableIndex(tb)

\* A chunked dump with a document holding objects of two tables and a
\* table spread over two documents
C3_Witness ==
    /\ gen.pc = "done"
    /\ gen.kind = "dump"
    /\ gen.n = 2
    /\ Len(emitted) = 2
    /\ Cardinality(DOMAIN emitted[1]) = 2
    /\ \E t \in DOMAIN emitted[1] : t \in DOMAIN emitted[2]

\* No two objects of a list of the document have the same primary key
DistinctKeys(doc) ==
    \A t \in DOMAIN doc : \A i \in DOMAIN doc[t] : \A j \in DOMAIN doc[t] :
        i # j => KeyOf(t, Pack(t, doc[t][i], FALSE))
                    # KeyOf(t, Pack(t, doc[t][j], FALSE))

\* A document of distinct keys was loaded into the empty database and then
\* dumped whole with the same with_metadata
RoundTripDone ==
    /\ lastLoad.called
    /\ lastLoad.count = 1
    /\ ~lastLoad.raised
    /\ DistinctKeys(lastLoad.doc)
    /\ gen.pc = "done"
    /\ gen.kind = "dump"
    /\ gen.n = 0
    /\ gen.with_metadata = lastLoad.with_metadata

\* An object without the fields whose value is NULL
DropNull(o) == [c \in {x \in DOMAIN o : o[x] # NULL} |-> o[c]]

\* An object with its timestamps in the fixed spelling
FixedSpelling(t, o) ==
    [c \in DOMAIN o |->
        IF IsTimestamp(t, c) THEN TsText(TsInstant(o[c]), 0) ELSE o[c]]

\* C4 as stated: the dump of a loaded document holds, per object type, the
\* objects of the document, equal up to the fields whose value is NULL
C4_RoundTripExact ==
    RoundTripDone =>
        \A t \in TableNames(version) :
            LET out == ConcatLists(emitted, t)
                in == DocList(lastLoad.doc, t)
            IN /\ Len(out) = Len(in)
               /\ {DropNull(out[i]) : i \in DOMAIN out}
                    = {DropNull(in[i]) : i \in DOMAIN in}

\* C4: the dump of a loaded document holds, per object type, the objects of
\* the document, equal up to the fields whose value is NULL and up to the
\* spelling of timestamps, which come back in the fixed spelling of the
\* same instant
C4_RoundTrip ==
    RoundTripDone =>
        \A t \in TableNames(version) :
            LET out == ConcatLists(emitted, t)
                in == DocList(lastLoad.doc, t)
            IN /\ Len(out) = Len(in)
               /\ {DropNull(out[i]) : i \in DOMAIN out}
                    = {FixedSpelling(t, DropNull(in[i])) : i \in DOMAIN in}

\* A round trip of a document of two tables with a checkout whose
\* timestamp is not in the fixed spelling
C4_Witness ==
    /\ RoundTripDone
    /\ Cardinality(DOMAIN lastLoad.doc) >= 2
    /\ "checkouts" \in DOMAIN lastLoad.doc
    /\ \E i \in DOMAIN lastLoad.doc["checkouts"] :
          LET o == lastLoad.doc["checkouts"][i]
          IN "start_time" \in DOMAIN o /\ TsSpelling(o["start_time"]) # 0
    /\ Len(emitted) = 1

\* A load call that completed and in which some stored row collided with a
\* different new row
Decided(w) == w # {} /\ w \subseteq {"db", "new"}

\* C5: of two consecutive load calls on the connection that both complete
\* with a key collision, one is won by the stored rows and the other by the
\* new rows, each call having a single winning side; of three, the third is
\* won by the side that won the first
C5_Alternation ==
    /\ \A i \in DOMAIN wins : Decided(wins[i]) => Cardinality(wins[i]) = 1
    /\ \A i \in 1..(Len(wins) - 1) :
          (Decided(wins[i]) /\ Decided(wins[i + 1])) => wins[i] # wins[i + 1]
    /\ \A i \in 1..(Len(wins) - 2) :
          (Decided(wins[i]) /\ Decided(wins[i + 1]) /\ Decided(wins[i + 2]))
              => wins[i + 2] = wins[i]

\* Three consecutive load calls with a collision each
C5_Witness ==
    /\ Len(wins) = 3
    /\ \A i \in 1..3 : Decided(wins[i])
    /\ wins[3] = wins[1]

\* C6 as stated: after every load call, completed or not, the flag is the
\* negation of its value before the call
C6_AlwaysToggled ==
    lastLoad.called => conn.load_prio_db = ~lastLoad.prio

\* C6: after a load call that completes the flag is the negation of its
\* value before the call, with or without object lists in the document;
\* after a load call that raises the flag has the value it had before
C6_Toggled ==
    lastLoad.called =>
        /\ ~lastLoad.raised => conn.load_prio_db = ~lastLoad.prio
        /\ lastLoad.raised => conn.load_prio_db = lastLoad.prio

\* A load that raised after a load that completed
C6_Witness ==
    /\ lastLoad.called
    /\ lastLoad.raised
    /\ Len(wins) >= 2
    /\ wins[Len(wins) - 1] # {"raised"}
    /\ conn.load_prio_db = lastLoad.prio

\* The rows of the list objs of table t that have the key k, packed
PackedWithKey(t, objs, k) ==
    SelectSeq(PackIter(t, objs, FALSE), LAMBDA r : KeyOf(t, r) = k)

\* C7: after a load that completes every table holds one row per key
\* stored before or loaded; for a key stored before and loaded, the row
\* stored before when the flag was true at the start of the load and the
\* (last) loaded row when it was false; for any other key the row stored
\* before, or the loaded row (the first one when the flag was true)
C7_Survivor ==
    (lastLoad.called /\ ~lastLoad.raised) =>
        \A t \in TableNames(version) :
            LET old == lastLoad.pre[t]
                objs == DocList(lastLoad.doc, t)
                keys == {KeyOf(t, old[i]) : i \in DOMAIN old}
                        \cup {KeyOf(t, Pack(t, objs[i], FALSE)) :
                                i \in DOMAIN objs}
                Stored(k) == CHOOSE r \in Range(old) : KeyOf(t, r) = k
                Loaded(k) == PackedWithKey(t, objs, k)
                Want(k) ==
                    IF lastLoad.prio
                    THEN IF \E r \in Range(old) : KeyOf(t, r) = k
                         THEN Stored(k) ELSE Loaded(k)[1]
                    ELSE IF Loaded(k) # <<>>
                         THEN Loaded(k)[Len(Loaded(k))] ELSE Stored(k)
            IN /\ Len(db[t]) = Cardinality(keys)
               /\ Range(db[t]) = {Want(k) : k \in keys}

\* A load whose new rows replaced different stored rows of two tables
C7_Witness ==
    /\ lastLoad.called
    /\ ~lastLoad.raised
    /\ ~lastLoad.prio
    /\ \A t \in {"checkouts", "builds"} :
          /\ t \in DOMAIN lastLoad.doc
          /\ Len(lastLoad.pre[t]) = 1
          /\ Len(db[t]) = 1
          /\ db[t] # lastLoad.pre[t]

\* The stored rows the ids argument names, as <<table, row>> pairs
Matched(ids) ==
    {p \in UNION {{<<t, r>> : r \in Range(db[t])} : t \in DOMAIN db} :
        /\ p[1] \in DOMAIN ids
        /\ KeyOf(p[1], p[2]) \in Range(ids[p[1]])}

\* The stored rows the rows of S refer to along the type graph
ParentsOf(S) ==
    {p \in UNION {{<<t, r>> : r \in Range(db[t])} : t \in DOMAIN db} :
        \E c \in S :
            /\ c[1] \in Range(Graph(version, p[1]))
            /\ ~HasNull(RefOf(p[1], c[2]))
            /\ RefOf(p[1], c[2]) = KeyOf(p[1], p[2])}

\* S and every stored transitive ancestor of its rows
RECURSIVE Ancestry(_)
Ancestry(S) ==
    IF ParentsOf(S) \subseteq S THEN S ELSE Ancestry(S \cup ParentsOf(S))

\* The tables that have an object in some emitted document
EmittedTables == UNION {DOMAIN emitted[i] : i \in DOMAIN emitted}

\* C9: a fully consumed query_iter with ids = {T: [id1]}, children = False
\* and parents = False has emitted the stored objects of T whose identity
\* is id1 (one object, identities being primary keys) and no object of
\* another type, and no document at all when no stored row matches
C9_IdentityRestriction ==
    (/\ gen.pc = "done"
     /\ gen.kind = "query"
     /\ ~gen.children
     /\ ~gen.parents
     /\ \E T \in DOMAIN gen.ids : DOMAIN gen.ids = {T} /\ Len(gen.ids[T]) = 1)
    => LET T == CHOOSE t \in DOMAIN gen.ids : TRUE
           rows == SelectSeq(db[T],
                        LAMBDA r : KeyOf(T, r) = gen.ids[T][1])
       IN /\ ConcatLists(emitted, T) = UnpackIter(T, rows, gen.with_metadata)
          /\ EmittedTables \subseteq {T}
          /\ rows = <<>> => emitted = <<>>

\* An identity restriction to build 1 of a database holding two builds
\* and objects of other types, consumed to its end: one document with one
\* object
C9_Witness ==
    /\ gen.pc = "done"
    /\ gen.kind = "query"
    /\ ~gen.children
    /\ ~gen.parents
    /\ DOMAIN gen.ids = {"builds"}
    /\ gen.ids["builds"] = << <<1>> >>
    /\ Len(db["builds"]) = 2
    /\ db["checkouts"] # <<>>
    /\ db["tests"] # <<>>
    /\ Len(emitted) = 1
    /\ DocSize(emitted[1]) = 1

\* C10: a fully consumed query_iter with parents = True and children =
\* False has emitted, of every type, the objects of the stored rows named
\* by ids and of their stored transitive ancestors along the type graph,
\* and nothing else (how many times an object is emitted is not stated)
C10_ParentExpansion ==
    (/\ gen.pc = "done"
     /\ gen.kind = "query"
     /\ gen.parents
     /\ ~gen.children)
    => \A t \in TableNames(version) :
          Range(ConcatLists(emitted, t)) =
              {Unpack(t, p[2], gen.with_metadata) :
                  p \in {q \in Ancestry(Matched(gen.ids)) : q[1] = t}}

\* The parents of a v4.1 incident: its issue, build and test, the test's
\* build, and the checkouts of the two builds, with nothing else emitted
C10_Witness ==
    /\ gen.pc = "done"
    /\ gen.kind = "query"
    /\ gen.parents
    /\ ~gen.children
    /\ version = "v4.1"
    /\ DOMAIN gen.ids = {"incidents"}
    /\ Len(ConcatLists(emitted, "incidents")) = 1
    /\ Len(ConcatLists(emitted, "issues")) = 1
    /\ Len(ConcatLists(emitted, "tests")) = 1
    /\ Len(db["tests"]) = 2
    /\ Cardinality(Range(ConcatLists(emitted, "builds"))) = 2
    /\ Cardinality(Range(ConcatLists(emitted, "checkouts"))) = 2

\* The stored rows that refer to a row of S along the type graph
ChildrenOf(S) ==
    {c \in UNION {{<<t, r>> : r \in Range(db[t])} : t \in DOMAIN db} :
        \E p \in S :
            /\ c[1] \in Range(Graph(version, p[1]))
            /\ ~HasNull(RefOf(p[1], c[2]))
            /\ RefOf(p[1], c[2]) = KeyOf(p[1], p[2])}

\* S and every stored transitive descendant of its rows
RECURSIVE Descendancy(_)
Descendancy(S) ==
    IF ChildrenOf(S) \subseteq S THEN S ELSE Descendancy(S \cup ChildrenOf(S))

\* The objects of table t among the <<table, row>> pairs of S
ObjectsOf(S, t) ==
    {Unpack(t, p[2], gen.with_metadata) : p \in {q \in S : q[1] = t}}

\* The set of objects of table t that query_iter returns for the ids of the
\* running generator with the given expansions
Returned(t, children, parents) ==
    LET i == CHOOSE j \in DOMAIN TABLES(version) : TABLES(version)[j] = t
    IN Range(Result([gen EXCEPT !.children = children,
                                !.parents = parents], i))

\* C11 as stated: a fully consumed query_iter with children = True and
\* parents = False has emitted, of every type, the objects of the stored rows named
\* by ids and of their stored transitive descendants along the type graph,
\* and nothing else
C11_ChildExpansion ==
    (/\ gen.pc = "done"
     /\ gen.kind = "query"
     /\ gen.children
     /\ ~gen.parents)
    => \A t \in TableNames(version) :
          Range(ConcatLists(emitted, t)) =
              ObjectsOf(Descendancy(Matched(gen.ids)), t)

\* C12 as stated: the objects a fully consumed query_iter with parents =
\* True and children = True has emitted are, of every type, those returned
\* with parents = True only together with those returned with children =
\* True only
C12_Independent ==
    (/\ gen.pc = "done"
     /\ gen.kind = "query"
     /\ gen.children
     /\ gen.parents)
    => \A t \in TableNames(version) :
          Range(ConcatLists(emitted, t)) =
              Returned(t, FALSE, TRUE) \cup Returned(t, TRUE, FALSE)

\* The identifiers the ids argument names, as <<table, ID tuple>> pairs
Named(ids) == UNION {{<<t, ids[t][i]>> : i \in DOMAIN ids[t]} : t \in DOMAIN ids}

\* The tables t is a child of in the type graph
ParentTables(t) == {p \in TableNames(version) : t \in Range(Graph(version, p))}

\* The stored rows whose identifier is in S
RowsOf(S) ==
    {c \in UNION {{<<t, r>> : r \in Range(db[t])} : t \in DOMAIN db} :
        <<c[1], KeyOf(c[1], c[2])>> \in S}

\* The identifiers the stored rows identified by S refer to
ParentIds(S) ==
    UNION {{<<p, RefOf(p, c[2])>> :
                p \in {q \in ParentTables(c[1]) : ~HasNull(RefOf(q, c[2]))}} :
           c \in RowsOf(S)}

\* The identifiers of the stored rows that refer to an identifier of S
ChildIds(S) ==
    {<<c[1], KeyOf(c[1], c[2])>> :
        c \in {d \in UNION {{<<t, r>> : r \in Range(db[t])} : t \in DOMAIN db} :
                 \E p \in ParentTables(d[1]) :
                    /\ ~HasNull(RefOf(p, d[2]))
                    /\ <<p, RefOf(p, d[2])>> \in S}}

RECURSIVE UpIds(_)
UpIds(S) == IF ParentIds(S) \subseteq S THEN S ELSE UpIds(S \cup ParentIds(S))

RECURSIVE DownIds(_)
DownIds(S) == IF ChildIds(S) \subseteq S THEN S ELSE DownIds(S \cup ChildIds(S))

\* C12: the child pass runs after the parent pass and on its result: a
\* fully consumed query_iter with parents = True and children = True has
\* emitted, of every type, the stored objects whose identifier is named by
\* ids, is referred to by a stored object so reached (transitively), or
\* belongs to a stored object referring (transitively) to any of these
\* identifiers; this includes everything returned with parents = True only
\* and with children = True only
C12_ChildrenOfParents ==
    (/\ gen.pc = "done"
     /\ gen.kind = "query"
     /\ gen.children
     /\ gen.parents)
    => \A t \in TableNames(version) :
          /\ Range(ConcatLists(emitted, t)) =
                ObjectsOf(RowsOf(DownIds(UpIds(Named(gen.ids)))), t)
          /\ Returned(t, FALSE, TRUE) \cup Returned(t, TRUE, FALSE)
                \subseteq Range(ConcatLists(emitted, t))

\* Test 1 queried with both expansions: test 2, a child of the build of
\* test 1 and neither a parent nor a child of test 1, is emitted too
C12_Witness ==
    /\ gen.pc = "done"
    /\ gen.kind = "query"
    /\ gen.children
    /\ gen.parents
    /\ DOMAIN gen.ids = {"tests"}
    /\ gen.ids["tests"] = << <<1>> >>
    /\ Cardinality(Range(ConcatLists(emitted, "tests"))) = 2
    /\ Cardinality(Returned("tests", FALSE, TRUE)
                   \cup Returned("tests", TRUE, FALSE)) = 1

\* C13 as stated: a dump_iter called with a non-empty after or until
\* argument, once run, has raised NoTimestamps and has emitted no document
C13_AlwaysRaises ==
    (/\ gen.kind = "dump"
     /\ gen.after # {} \/ gen.until # {}
     /\ gen.pc \notin {"idle", "new"})
    => /\ gen.pc = "raised"
       /\ emitted = <<>>

\* major * 1000 + minor
Thousands(v) == IF Fits(v[1], v[2]) THEN (v[1] * 1000) + v[2] ELSE TooBig

C15_FailedLoadWritesNothing ==
    (lastLoad.called /\ lastLoad.raised) => db = lastLoad.pre

\* A load that raised at the insert into builds after its insert into
\* checkouts had changed that table
C15_Witness ==
    /\ lastLoad.called
    /\ lastLoad.raised
    /\ lastLoad.failAt = 2
    /\ "checkouts" \in DOMAIN lastLoad.doc
    /\ LoadTables(version, lastLoad.pre,
                  Executed(version, lastLoad.doc, lastLoad.failAt),
                  lastLoad.prio, lastLoad.with_metadata, 1) # lastLoad.pre
    /\ db = lastLoad.pre

\* C16: a step of _inherit of v4.1 on a database complying with v4.0
\* creates, empty, the tables v4.1 declares and v4.0 does not (issues,
\* incidents) and no other, and leaves the rows of the tables there before
\* (checkouts, builds, tests) as they were; v4.1 declares every table that
\* v4.0 declares, with the same columns
C16_InheritAddsOnly ==
    [][(~inherited.done /\ inherited'.done) =>
          /\ DOMAIN db' = DOMAIN db \cup {"issues", "incidents"}
          /\ DOMAIN db' \ DOMAIN db =
                TableNames("v4.1") \ TableNames("v4.0")
          /\ \A t \in DOMAIN db : db'[t] = db[t]
          /\ \A t \in DOMAIN db' \ DOMAIN db : db'[t] = <<>>
          /\ TableNames("v4.0") \subseteq TableNames("v4.1")]_vars

\* A database holding checkouts, builds and tests, upgraded: the rows are
\* there and the two tables are created
C16_Witness ==
    /\ inherited.done
    /\ \A t \in TableNames("v4.0") : Len(inherited.pre[t]) = 1
    /\ \A t \in TableNames("v4.0") : db[t] = inherited.pre[t]
    /\ db["issues"] = <<>>
    /\ db["incidents"] = <<>>

----------------------------------------------------------------------------
(* oo_query *)

\* The objects of a type the queried database holds: the rows of the statement of
\* the type that have all their ID fields
OoObjects(type) ==
    {r \in Range(StatementRows(oo.db, OO_QUERIES(version, type))) :
        ~HasNull(Fields(r, IdFieldTypes(type)))}

\* Object r of pattern p is a child (p.child) or a parent of object b of
\* the base pattern
Related(p, r, b) ==
    LET pairs == ColumnPairs(p, p.base[1])
    IN /\ Fields(r, pairs[1]) = Fields(b, pairs[2])
       /\ ~HasNull(Fields(r, pairs[1]))

RECURSIVE OoMatched(_)
\* The objects a pattern matches
OoMatched(p) ==
    {r \in OoObjects(p.obj_type) :
        /\ p.restricted => Fields(r, IdFieldTypes(p.obj_type)) \in p.obj_id_set
        /\ p.base # <<>> => \E b \in OoMatched(p.base[1]) : Related(p, r, b)}

\* No two objects of the list have the same ID
OneEach(objs, type) ==
    \A i, j \in DOMAIN objs :
        Fields(objs[i], IdFieldTypes(type))
            = Fields(objs[j], IdFieldTypes(type)) => i = j

\* C17: when oo_query returns, its result has an entry for exactly the
\* object types that have a pattern in the set; the entry of a type holds
\* the objects matched by at least one pattern of the type, each of them
\* once however many patterns match it
C17_DedupUnion ==
    (oo.called /\ ~oo.raised) =>
        /\ DOMAIN oo.objs = QueriedTypes(oo.pattern_set)
        /\ \A type \in DOMAIN oo.objs :
              /\ OneEach(oo.objs[type], type)
              /\ Range(oo.objs[type]) =
                    UNION {OoMatched(p) :
                             p \in {q \in oo.pattern_set :
                                       q.obj_type = type}}

\* A build matched by two patterns of the set is in the result
C17_Witness ==
    /\ oo.called
    /\ ~oo.raised
    /\ \E p, q \in oo.pattern_set :
          /\ p # q
          /\ p.obj_type = "build"
          /\ q.obj_type = "build"
          /\ q.base # <<>>
          /\ OoMatched(p) \cap OoMatched(q) # {}
    /\ Len(oo.objs["build"]) = 1

\* The only pattern of the set has no base and an empty ID set
EmptyIdSet ==
    /\ oo.called
    /\ \E p \in oo.pattern_set :
          /\ oo.pattern_set = {p}
          /\ p.base = <<>>
          /\ p.restricted
          /\ p.obj_id_set = {}

\* C18: oo_query with a pattern whose ID set is empty, of whichever object
\* type, raises no error and returns an empty list for the type
C18_EmptySetMatchesNothing ==
    EmptyIdSet =>
        /\ ~oo.raised
        /\ \A type \in DOMAIN oo.objs : oo.objs[type] = <<>>

\* The pattern ">revision#": every revision
AllRevisions == Pattern(<<>>, TRUE, "revision", FALSE, {})

\* The (git_commit_hash, patchset_hash) pairs of the checkouts stored when
\* oo_query was called
CheckoutPairs ==
    {<<c.git_commit_hash, c.patchset_hash>> :
        c \in Range(oo.db["checkouts"])}

\* The ID pairs of the revisions oo_query returned
RevisionPairs ==
    {Fields(r, IdFieldTypes("revision")) : r \in Range(oo.objs["revision"])}

\* C19 as stated: the revisions oo_query returns for the pattern matching
\* every revision are one for each distinct (git_commit_hash,
\* patchset_hash) pair of the stored checkouts
C19_OnePerPair ==
    (oo.called /\ oo.pattern_set = {AllRevisions}) =>
        /\ ~oo.raised
        /\ OneEach(oo.objs["revision"], "revision")
        /\ RevisionPairs = CheckoutPairs

\* C19: the revisions oo_query returns for the pattern matching every
\* revision are one for each distinct (git_commit_hash, patchset_hash)
\* pair of the stored checkouts that have both fields; a checkout lacking
\* one of them yields no revision.  With a single stored checkout that has
\* both, the result is the one revision of its pair
C19_OnePerFullPair ==
    (oo.called /\ oo.pattern_set = {AllRevisions}) =>
        /\ ~oo.raised
        /\ OneEach(oo.objs["revision"], "revision")
        /\ RevisionPairs = {pair \in CheckoutPairs : ~HasNull(pair)}
        /\ (/\ Len(oo.db["checkouts"]) = 1
            /\ \A pair \in CheckoutPairs : ~HasNull(pair))
              => /\ Len(oo.objs["revision"]) = 1
                 /\ RevisionPairs = CheckoutPairs

\* Three checkouts, two of them of the same revision, give two revisions
C19_Witness ==
    /\ oo.called
    /\ oo.pattern_set = {AllRevisions}
    /\ Len(oo.db["checkouts"]) = 3
    /\ Cardinality(CheckoutPairs) = 2
    /\ Len(oo.objs["revision"]) = 2

----------------------------------------------------------------------------
(* Errors of the backend *)

\* The operations that catch the error of a statement
Wrapping == {"init", "_inherit"}

\* C20 as stated: whichever operation a statement failed in, the caller got
\* an error that wraps the backend's and names the table of the statement
C20_AllWrapped ==
    err.op # "none" =>
        /\ err.raised
        /\ err.wrapped
        /\ err.table = err.at

\* C20: whichever operation (init, _inherit, load, dump_iter, query_iter,
\* cleanup, empty) a statement failed in, the caller got an error; from
\* init and _inherit it got one that wraps the backend's and names the
\* table whose creation failed, from the other operations the error of the
\* backend as it is, with no table or operation named
C20_CreateWrapped ==
    err.op # "none" =>
        /\ err.raised
        /\ err.op \in Wrapping => err.wrapped /\ err.table = err.at
        /\ err.op \notin Wrapping => ~err.wrapped /\ err.table = ""

\* init failed creating its second table: the caller got the wrapping
\* error naming it, and the first table is there
C20_Witness ==
    /\ err.op = "init"
    /\ err.raised
    /\ err.wrapped
    /\ err.table = "builds"
    /\ DOMAIN db = {"checkouts"}

----------------------------------------------------------------------------
(* The documents of dump_iter and query_iter *)

\* The tables of the database that hold a row
Populated == {t \in DOMAIN db : db[t] # <<>>}

\* C25: every document dump_iter or query_iter has emitted holds an object,
\* and has an object list only for the types it holds an object of, no
\* list being empty; once the dump of a database holding a single checkout
\* and nothing else is over, one document was emitted, with the list of
\* checkouts and no other; once the dump of a database holding nothing is
\* over, no document was emitted
C25_NoEmptyList ==
    /\ \A i \in DOMAIN emitted :
          /\ DOMAIN emitted[i] # {}
          /\ \A t \in DOMAIN emitted[i] : emitted[i][t] # <<>>
    /\ (gen.kind = "dump" /\ gen.pc = "done") =>
          /\ (Populated = {"checkouts"} /\ Len(db["checkouts"]) = 1) =>
                /\ Len(emitted) = 1
                /\ DOMAIN emitted[1] = {"checkouts"}
                /\ Len(emitted[1]["checkouts"]) = 1
          /\ Populated = {} => emitted = <<>>

\* The dump, two objects a document, of a database holding one checkout,
\* one build and one test is over: a document of two lists, then a
\* document of the list of tests only
C25_Witness ==
    /\ gen.kind = "dump"
    /\ gen.pc = "done"
    /\ gen.n = 2
    /\ Populated = {"checkouts", "builds", "tests"}
    /\ Len(emitted) = 2
    /\ DOMAIN emitted[1] = {"checkouts", "builds"}
    /\ DOMAIN emitted[2] = {"tests"}

----------------------------------------------------------------------------
(* query_iter: repeated objects *)

\* C26: across the documents query_iter has emitted, no object appears
\* twice
C26_AtMostOnce ==
    gen.kind = "query" =>
        \A t \in EmittedTables :
            LET objs == ConcatLists(emitted, t)
            IN \A i, j \in DOMAIN objs : objs[i] = objs[j] => i = j

----------------------------------------------------------------------------
(* validate_main *)

\* The entries of the catalog whose URL check fails: the request fails, or
\* it fails for SSL and the request made again without verification fails
FailedEntries(catalog) ==
    {i \in DOMAIN catalog :
        \/ catalog[i].head = "error"
        \/ catalog[i].head = "ssl" /\ catalog[i].retry = "error"}

\* C28: validate_main with URL verification requests the URL of every
\* entry of the catalog, lets no exception out, prints the failure of every
\* entry whose check failed, and returns 1 when a check failed and 0 when
\* none did; without URL verification it makes no request and returns 0
C28_EveryUrlChecked ==
    vm.run =>
        IF vm.urls
        THEN /\ ~vm.escaped
             /\ vm.requested >= Len(vm.catalog)
             /\ Range(vm.printed) = FailedEntries(vm.catalog)
             /\ vm.status = IF FailedEntries(vm.catalog) # {} THEN <<1>>
                            ELSE <<0>>
        ELSE /\ vm.requested = 0
             /\ vm.status = <<0>>

----------------------------------------------------------------------------
(* Notification messages *)

\* The rendered text out is the text in, trimmed to max_len characters: no
\* longer than max_len; in itself when in is no longer than max_len; else
\* max_len characters long, the scissors sign at its end after the first
\* characters of in
TrimmedTo(in, out, max_len) ==
    /\ Len(out) <= max_len
    /\ Len(in) <= max_len => out = in
    /\ Len(in) > max_len =>
          /\ Len(out) = max_len
          /\ SubSeq(out, max_len - 1, max_len) = Scissors
          /\ SubSeq(out, 1, max_len - 2) = SubSeq(in, 1, max_len - 2)

----------------------------------------------------------------------------
(* The with-block of the generators *)

\* The objects of the documents emitted, with their tables
EmittedObjs ==
    UNION {UNION {{<<t, emitted[i][t][j]>> : j \in DOMAIN emitted[i][t]} :
                     t \in DOMAIN emitted[i]} : i \in DOMAIN emitted}

\* C22: while dump_iter or query_iter is between two documents its
\* with-block is entered, and no commit or rollback was made on the
\* connection since it was; once the generator is over the block is left;
\* the documents of a dump hold only objects stored when the block was
\* entered
C22_ScopeHeld ==
    /\ gen.pc = "loop" => txn.scopes = 1 /\ ~txn.ended
    /\ gen.pc \in {"tail", "done", "raised", "idle"} => txn.scopes = 0
    /\ (gen.kind = "dump" /\ gen.pc \in {"loop", "tail", "done"}) =>
          \A o \in EmittedObjs :
              o[2] \in Range(UnpackIter(o[1], txn.snapshot[o[1]], FALSE))

RECURSIVE OoAligned(_, _)
\* The parameters ps fill the VALUES blocks in order and to the last one,
\* the rows of each block being the IDs of the pattern it was written for
OoAligned(blocks, ps) ==
    IF blocks = <<>> THEN ps = <<>>
    ELSE LET b == Head(blocks)
             k == b.nrows * b.nf
         IN /\ Len(ps) >= k
            /\ Range(ValuesRows(SubSeq(ps, 1, k), b.nf)) = b.ids
            /\ OoAligned(Tail(blocks), SubSeq(ps, k + 1, Len(ps)))

RECURSIVE IdsAligned(_, _, _)
\* The parameters ps fill the VALUES blocks in order and to the last one,
\* the rows of each block being the IDs given for its object list
IdsAligned(blocks, ps, ids) ==
    IF blocks = <<>> THEN ps = <<>>
    ELSE LET b  == Head(blocks)
             nf == Len(IdFields(b.table))
             k  == b.nrows * nf
         IN /\ Len(ps) >= k
            /\ ValuesRows(SubSeq(ps, 1, k), nf) = ids[b.table]
            /\ IdsAligned(Tail(blocks), SubSeq(ps, k + 1, Len(ps)), ids)

\* The queries of the query_iter call in progress
GenQueries == CompileQueries(version, gen.ids, gen.children, gen.parents)

\* C23: every statement oo_query executes, and every statement query_iter
\* executes, has as many "?" as parameters, the i-th "?" bound to the i-th
\* parameter, and the values of each ID in the VALUES row of the pattern,
\* or of the object list, the ID was given for
C23_Aligned ==
    /\ oo.called =>
          \A type \in DOMAIN oo.statements :
             OoAligned(oo.statements[type].blocks,
                       oo.statements[type].params)
    /\ gen.kind = "query" =>
          \A t \in TableNames(version) :
             GenQueries[t].selects # <<>> =>
                /\ Len(GenQueries[t].params)
                      = PlaceholdersOf(GenQueries[t].selects)
                /\ IdsAligned(SelectsBlocks(GenQueries[t].selects),
                              GenQueries[t].params, gen.ids)

\* An OO query of two patterns of a type, one with IDs of its own and a
\* base with IDs, then a query for the parents and the children of IDs of
\* two object lists, one of whose statements has three parameters or more
C23_Witness ==
    /\ oo.called
    /\ Cardinality(oo.pattern_set) = 2
    /\ \E p \in oo.pattern_set :
          /\ Cardinality(p.obj_id_set) = 2
          /\ p.base # <<>>
          /\ Cardinality(p.base[1].obj_id_set) = 2
    /\ gen.kind = "query" /\ gen.children /\ gen.parents
    /\ gen.pc = "done"
    /\ \E t \in TableNames(version) : Len(GenQueries[t].params) >= 3

RECURSIVE ChainMatched(_)
\* The objects a pattern matches, by the direction of its edge to its
\* base: the objects of its type (of its ID set, when it has one) that, for
\* a child pattern, refer to an object its base matches and, for a
\* parent pattern, are referred to by one
ChainMatched(p) ==
    {r \in OoObjects(p.obj_type) :
        /\ p.restricted => Fields(r, IdFieldTypes(p.obj_type)) \in p.obj_id_set
        /\ p.base # <<>> =>
              \E b \in ChainMatched(p.base[1]) :
                 IF p.child
                 THEN Fields(r, RefFields(p.base[1].obj_type, p.obj_type))
                         = Fields(b, IdFieldTypes(p.base[1].obj_type))
                 ELSE Fields(r, IdFieldTypes(p.obj_type))
                         = Fields(b, RefFields(p.obj_type,
                                               p.base[1].obj_type))}

\* C24: the result of an OO query of one pattern chained to a base holds,
\* for a child pattern, the objects whose reference fields towards the
\* base's type equal the ID fields of an object the base matches and, for a
\* parent pattern, the objects whose ID fields equal the reference fields
\* of an object the base matches, the base being matched the same way
C24_EdgeDirection ==
    (oo.called /\ ~oo.raised) =>
        \A p \in oo.pattern_set :
            (oo.pattern_set = {p} /\ p.base # <<>>) =>
                Range(oo.objs[p.obj_type]) = ChainMatched(p)

\* A pattern for the children of the parents of objects, or for the
\* parents of the children of objects, that matches some objects of its
\* type and not others
C24_Witness ==
    /\ oo.called /\ ~oo.raised
    /\ \E p \in oo.pattern_set :
          /\ oo.pattern_set = {p}
          /\ p.base # <<>>
          /\ p.base[1].base # <<>>
          /\ p.child # p.base[1].child
          /\ ~p.restricted
          /\ oo.objs[p.obj_type] # <<>>
          /\ Range(oo.objs[p.obj_type]) # OoObjects(p.obj_type)

\* The object lists whose fetch statement the query_iter call in progress
\* executes: those with an ID-selecting query
Fetched == {t \in TableNames(version) : GenQueries[t].selects # <<>>}

\* C29: a query_iter call given no ID, its ids being empty or giving every
\* object list it names an empty list, executes no fetch statement and
\* emits no document, with and without children and parents
C29_NoIdsNothing ==
    (gen.kind = "query" /\ \A t \in DOMAIN gen.ids : gen.ids[t] = <<>>) =>
        /\ Fetched = {}
        /\ emitted = <<>>
        /\ gen.pc \in {"new", "done"}

\* A query for the parents and the children of no ID of two object lists
\* has ended on a database that holds objects of both
C29_Witness ==
    /\ gen.kind = "query" /\ gen.pc = "done"
    /\ gen.children /\ gen.parents
    /\ Cardinality(DOMAIN gen.ids) = 2
    /\ \A t \in DOMAIN gen.ids : gen.ids[t] = <<>> /\ db[t] # <<>>
    /\ emitted = <<>>

\* The tables of a database and the columns each was created with, the
\* tables of old by init of v4.0 and the others by _inherit of v4.1
UpgradedTables(old, new) ==
    [t \in DOMAIN new |-> IF t \in DOMAIN old THEN TABLES_ARGS("v4.0")[t]
                          ELSE TABLES_ARGS("v4.1")[t]]

\* The tables init of v4.1 creates in an empty database, with their columns
DirectTables ==
    [t \in DOMAIN CreatedTables("v4.1", <<>>,
                                [x \in TableNames("v4.1") |-> <<>>], 0)
        |-> TABLES_ARGS("v4.1")[t]]

\* C27: the step of _inherit of v4.1 on a database initialized by v4.0
\* leaves the tables, with the columns, init of v4.1 creates in an empty
\* database; a step of _inherit applied to the upgraded database removes
\* no table and empties none
C27_UpgradeEquivalence ==
    [][/\ (~inherited.done /\ inherited'.done) =>
             UpgradedTables(db, db') = DirectTables
       /\ inherited'.again =>
             \A t \in DOMAIN db :
                /\ t \in DOMAIN db'
                /\ db[t] # <<>> => db'[t] # <<>>]_vars

\* _inherit was applied again to an upgraded database that holds
\* checkouts loaded before the upgrade and issues loaded after it
C27_Witness ==
    /\ inherited.done /\ inherited.again
    /\ inherited.pre["checkouts"] # <<>>
    /\ db["checkouts"] # <<>>
    /\ db["issues"] # <<>>

====
